---------------------------- MODULE Spec2Model ----------------------------
(***************************************************************************)
(* Rankability forecast engine of rankpredict:                             *)
(*   backend/app/services/forecast_service.py  (calibration, tiers)        *)
(*   backend/app/models/ml_model.py            (feature vector, gateway)   *)
(*                                                                         *)
(* Numbers.  Python floats are modelled by exact rationals in fixed point: *)
(*   - a probability handed to the calibrator is an integer number of      *)
(*     1/RawDen;                                                           *)
(*   - a calibration factor is written in percent, as in the source        *)
(*     (0.85 is 85); every factor is a multiple of 5 percent, so the       *)
(*     product of the four factors is an integer number of 1/20^4;         *)
(*   - a calibrated probability is an integer number of 1/CalDen;          *)
(*   - a percentage handed to the tier function is an integer number of    *)
(*     1/PctDen percent.                                                   *)
(* A Python value that may be None or NaN is a record [k, v]: k is "num",  *)
(* "None" or "nan", and v is the number when k = "num".                    *)
(***************************************************************************)
EXTENDS Integers, Sequences, FiniteSets, TLC

VARIABLES
    cal_pc,      \* "idle" | "calibrated" | "bucketed": which call has run
    cal_args,    \* arguments of the last calibrate_rank_probability call
    cal_ret,     \* its outcome: a returned value or a raised exception
    pct_in,      \* argument of the last bucket_keyword_forecast_tier call
    tier_out,    \* its return value
    fv_pc,       \* "idle" | "built" | "predicted" | "raw_prob": which call has run
    mlmodel,     \* the MLModel handle: model, feature_list, loaded
    disk,        \* the two files load_model reads
    user_metrics,  \* candidate metrics of the last call (a mapping)
    serp_medians,  \* reference medians of the last call (a mapping)
    features,    \* outcome of build_feature_vector in the last call
    X,           \* the frame handed to the classifier in the last call
    fv_ret,      \* outcome of predict_rankability or get_raw_prob
    ld_pc,       \* per request thread: the statement it executes next
    ld_ref,      \* per request thread: the handle get_model returned (0: none yet)
    ld_calls,    \* per request thread: calls of the gateway it has started
    instance,    \* get_model._instance: a handle number, 0 while the attribute is unset
    handles,     \* the MLModel objects constructed so far, by number
    created,     \* how many MLModel objects have been constructed
    artifact_reads,  \* how many times joblib.load has read the artifact
    list_reads,  \* how many times json.load has read the feature list
    pf_pc,       \* "idle" | "profiled": whether the content profiles were built
    pf_group,    \* the enriched results they were built from
    pf_profiles, \* the median, 25th and 75th percentile of each content metric
    ex_pc,       \* "idle" | "explained": whether get_tier_explanation has run
    ex_args,     \* its arguments
    ex_ret,      \* the explanation it returned
    fit_pc,      \* "idle" | "domain_fit" | "intent_fit": which scorer has run
    fit_args,    \* its arguments and the answers of its collaborator
    fit_ret,     \* the score (in tenths) and the explanation it returned
    fc_pc,       \* "idle" | "forecast": whether a forecast has just returned or raised
    fc_in,       \* its arguments and the answers of its collaborators
    fc_out,      \* its outcome: the result it returned or the exception it raised
    fc_prev,     \* the exception of the call before ("" when it returned or there was none)
    an_pc,       \* "idle" | "analyzed": whether the forecast result was analyzed
    an_args,     \* the client profile and the answers of the embedding model
    an_ret,      \* the forecast result after the call and the enhanced result
    cl_pc,       \* "idle" | "client_forecast": whether compute_client_forecast has run
    cl_args,     \* its arguments
    cl_ret,      \* the percentage (in tenths), the tier and the recommendation
    bt_pc,       \* "idle" | "loop" | "returned" | "aborted" | "not_found": the batch endpoint
    bt_in,       \* the endpoint, force_rescore, the list's client profile
    bt_kws,      \* the keyword rows of the session, with what each will meet
    bt_i,        \* how many keywords the loop has been through
    bt_scored,   \* keywords_scored
    bt_resp,     \* keyword_responses
    bt_db,       \* the keyword rows of the session, committed when the call returns
    bt_log       \* per keyword, the exception its except clause printed ("": none)

calVars == <<cal_pc, cal_args, cal_ret, pct_in, tier_out>>
fvVars == <<fv_pc, mlmodel, disk, user_metrics, serp_medians, features, X, fv_ret>>
ldVars == <<ld_pc, ld_ref, ld_calls, instance, handles, created, artifact_reads, list_reads>>
pfVars == <<pf_pc, pf_group, pf_profiles>>
exVars == <<ex_pc, ex_args, ex_ret>>
fitVars == <<fit_pc, fit_args, fit_ret>>
fcVars == <<fc_pc, fc_in, fc_out, fc_prev>>
anVars == <<an_pc, an_args, an_ret>>
clVars == <<cl_pc, cl_args, cl_ret>>
btVars == <<bt_pc, bt_in, bt_kws, bt_i, bt_scored, bt_resp, bt_db, bt_log>>
vars == <<calVars, fvVars, ldVars, pfVars, exVars, fitVars, fcVars, anVars, clVars, btVars>>

\* what a step of one component leaves alone
exceptCal == <<fvVars, ldVars, pfVars, exVars, fitVars, fcVars, anVars, clVars, btVars>>
exceptFv == <<calVars, ldVars, pfVars, exVars, fitVars, fcVars, anVars, clVars, btVars>>
exceptLd == <<calVars, fvVars, pfVars, exVars, fitVars, fcVars, anVars, clVars, btVars>>
exceptPf == <<calVars, fvVars, ldVars, exVars, fitVars, fcVars, anVars, clVars, btVars>>
exceptEx == <<calVars, fvVars, ldVars, pfVars, fitVars, fcVars, anVars, clVars, btVars>>
exceptFit == <<calVars, fvVars, ldVars, pfVars, exVars, fcVars, anVars, clVars, btVars>>
exceptFc == <<calVars, ldVars, pfVars, exVars, fitVars, clVars, btVars>>
exceptCl == <<calVars, fvVars, ldVars, pfVars, exVars, fitVars, fcVars, anVars, btVars>>
exceptBt == <<calVars, ldVars, pfVars, exVars, fitVars, fcVars, anVars, clVars>>

---------------------------------------------------------------------------
(* Python values *)

Num(n) == [k |-> "num", v |-> n]
None == [k |-> "None", v |-> 0]
NaN == [k |-> "nan", v |-> 0]

IsNum(x) == x.k = "num"
IsNone(x) == x.k = "None"
\* np.isnan(x); np.isnan(None) raises TypeError, see IsNanRaises
IsNan(x) == x.k = "nan"
IsNanRaises(x) == x.k = "None"

\* outcome of a call: a returned value, or an exception that reached the caller
Returned(x) == [k |-> "ok", v |-> x, exc |-> ""]
Raised(e) == [k |-> "raise", v |-> 0, exc |-> e]

---------------------------------------------------------------------------
(* Bounds of the model *)

\* giant_brand_count ranges over 0..MaxGiant
MaxGiant == 5
\* the query has 0..MaxTokens whitespace-separated tokens
MaxTokens == 5
\* distance, in 1/PctDen percent, explored on each side of a tier threshold
MaxDelta == 40
\* a metric that is a number ranges over -1..MaxMetric
MaxMetric == 2
\* the feature-list file holds the builder's names rotated by 0..MaxRot places
MaxRot == 1
\* each request thread starts at most MaxCalls calls of the gateway
MaxCalls == 2
\* a reference group has up to MaxItems results, or more than ten
MaxItems == 3
\* a content metric of a result ranges over 0..MaxValue
MaxValue == 2
\* the client has up to MaxTopics vertical keywords
MaxTopics == 2

---------------------------------------------------------------------------
(* Fixed-point scales *)

RawDen == 1000
PctDen == 10000
\* 20^4 (the four factors in twentieths) times RawDen
CalDen == 20 * 20 * 20 * 20 * RawDen

\* x percent (x/100) as a calibrated probability, in 1/CalDen
CalOfPercent(x) == x * (CalDen \div 100)

---------------------------------------------------------------------------
(* Queries: strings as sequences of one-character strings *)

\* len(query.strip().split()): the number of maximal runs of non-blank characters
TokenCount(q) ==
    Cardinality({i \in 1..Len(q) : q[i] # " " /\ (i = 1 \/ q[i - 1] = " ")})

RECURSIVE Words(_)
\* n one-letter words, each followed by a blank
Words(n) == IF n = 0 THEN <<>> ELSE <<"a", " ">> \o Words(n - 1)

\* a query of n tokens; padded: with a leading blank and the trailing blank kept
MkQuery(n, padded) ==
    IF padded THEN <<" ">> \o Words(n)
    ELSE IF n = 0 THEN <<>> ELSE SubSeq(Words(n), 1, 2 * n - 1)

Queries ==
    {MkQuery(n, FALSE) : n \in 0..MaxTokens} \cup {MkQuery(n, TRUE) : n \in {0, 2, 3}}

---------------------------------------------------------------------------
(* calibrate_rank_probability, forecast_service.py:108-196 *)

\* the authority factor with the two middle discounts exchanged
FactorDt_swapped(median_dt_serp, my_dt) ==
    IF IsNone(median_dt_serp) \/ IsNan(median_dt_serp) \/ IsNan(my_dt)
    THEN 100
    ELSE LET dt_gap == my_dt.v - median_dt_serp.v
         IN  IF dt_gap >= 0 THEN 100
             ELSE IF dt_gap > -10 THEN 70
             ELSE IF dt_gap > -20 THEN 85
             ELSE 50

\* lines 142-153; in percent
FactorDt(median_dt_serp, my_dt) ==
    IF IsNone(median_dt_serp) \/ IsNan(median_dt_serp) \/ IsNan(my_dt)
    THEN 100
    ELSE LET dt_gap == my_dt.v - median_dt_serp.v
         IN  IF dt_gap >= 0 THEN 100
             ELSE IF dt_gap > -10 THEN 85
             ELSE IF dt_gap > -20 THEN 70
             ELSE 50

\* line 142: np.isnan(my_dt) is evaluated when the two tests before it are false
FactorDtRaises(median_dt_serp, my_dt) ==
    /\ ~IsNone(median_dt_serp)
    /\ ~IsNan(median_dt_serp)
    /\ IsNanRaises(my_dt)

\* the backlink factor with strict comparisons (ratio > 1.0, > 0.5, ...)
FactorRef_strict(median_ref_serp, my_ref) ==
    IF \/ IsNone(median_ref_serp)
       \/ IsNan(median_ref_serp)
       \/ median_ref_serp.v <= 0
       \/ IsNan(my_ref)
    THEN 100
    ELSE LET n == my_ref.v
             d == median_ref_serp.v
         IN  IF n > d THEN 100
             ELSE IF 2 * n > d THEN 90
             ELSE IF 5 * n > d THEN 75
             ELSE IF 20 * n > d THEN 40
             ELSE 20

\* lines 156-169; in percent.  ratio = my_ref / median_ref_serp is compared
\* by cross-multiplication (median_ref_serp > 0 here)
FactorRef(median_ref_serp, my_ref) ==
    IF \/ IsNone(median_ref_serp)
       \/ IsNan(median_ref_serp)
       \/ median_ref_serp.v <= 0
       \/ IsNan(my_ref)
    THEN 100
    ELSE LET n == my_ref.v
             d == median_ref_serp.v
         IN  IF n >= d THEN 100
             ELSE IF 2 * n >= d THEN 90
             ELSE IF 5 * n >= d THEN 75
             ELSE IF 20 * n >= d THEN 40
             ELSE 20

\* line 156: np.isnan(my_ref) is evaluated when the three tests before it are false
FactorRefRaises(median_ref_serp, my_ref) ==
    /\ ~IsNone(median_ref_serp)
    /\ ~IsNan(median_ref_serp)
    /\ median_ref_serp.v > 0
    /\ IsNanRaises(my_ref)

\* lines 172-177; in percent
FactorBrand(giant_brand_count) ==
    IF giant_brand_count >= 4 THEN 40
    ELSE IF giant_brand_count >= 2 THEN 70
    ELSE 100

\* lines 180-186; in percent
FactorHead(query) ==
    LET q_tokens == TokenCount(query)
    IN  IF q_tokens <= 2 THEN 50
        ELSE IF q_tokens <= 3 THEN 80
        ELSE 100

\* line 189, in 1/20^4
CompFactor(a) ==
    (FactorDt(a.median_dt_serp, a.my_dt) \div 5)
    * (FactorRef(a.median_ref_serp, a.my_ref) \div 5)
    * (FactorBrand(a.giant_brand_count) \div 5)
    * (FactorHead(a.query) \div 5)

Min(x, y) == IF y < x THEN y ELSE x
Max(x, y) == IF y > x THEN y ELSE x

\* the clamp without its upper limit
Clamp_lower_only(calibrated) == Max(calibrated, CalOfPercent(1))

\* line 194: max(min(calibrated, 0.50), 0.01), in 1/CalDen
Clamp(calibrated) == Max(Min(calibrated, CalOfPercent(50)), CalOfPercent(1))

\* the function without its guard on raw_prob (lines 138-139 left out):
\* np.isnan is never asked about raw_prob, None * float raises, NaN falls
\* through the clamp: min(nan, 0.50) is nan and max(nan, 0.01) is nan
calibrate_unguarded(a) ==
    IF FactorDtRaises(a.median_dt_serp, a.my_dt) THEN Raised("TypeError")
    ELSE IF FactorRefRaises(a.median_ref_serp, a.my_ref) THEN Raised("TypeError")
    ELSE IF IsNone(a.raw_prob) THEN Raised("TypeError")
    ELSE IF IsNan(a.raw_prob) THEN [k |-> "nan", v |-> 0, exc |-> ""]
    ELSE Returned(Clamp(a.raw_prob.v * CompFactor(a)))

\* the whole function; a is the record of its seven arguments
calibrate_rank_probability(a) ==
    IF IsNone(a.raw_prob) \/ IsNan(a.raw_prob) THEN Returned(0)
    ELSE IF FactorDtRaises(a.median_dt_serp, a.my_dt) THEN Raised("TypeError")
    ELSE IF FactorRefRaises(a.median_ref_serp, a.my_ref) THEN Raised("TypeError")
    ELSE Returned(Clamp(a.raw_prob.v * CompFactor(a)))

---------------------------------------------------------------------------
(* bucket_keyword_forecast_tier, forecast_service.py:199-215 *)

\* the tier function open at each threshold (pct > 20, > 10, > 4)
bucket_open_thresholds(pct) ==
    IF pct > 20 * PctDen THEN "T1_GO_NOW"
    ELSE IF pct > 10 * PctDen THEN "T2_STRATEGIC"
    ELSE IF pct > 4 * PctDen THEN "T3_LONG_GAME"
    ELSE "T4_NOT_WORTH_IT"

\* pct in 1/PctDen percent
bucket_keyword_forecast_tier(pct) ==
    IF pct >= 20 * PctDen THEN "T1_GO_NOW"
    ELSE IF pct >= 10 * PctDen THEN "T2_STRATEGIC"
    ELSE IF pct >= 4 * PctDen THEN "T3_LONG_GAME"
    ELSE "T4_NOT_WORTH_IT"

\* the percentage cut to one decimal place instead of rounded
RoundPct_down(cal) == (cal \div (CalDen \div 1000)) * (PctDen \div 10)

\* round(cal * 100, 1) of forecast_service.py:459, as a percentage in 1/PctDen:
\* the nearest tenth of a percent, an exact tie going to the even tenth
RoundPct(cal) ==
    LET unit == CalDen \div 1000
        q == cal \div unit
        r == cal % unit
        tenths == IF 2 * r > unit \/ (2 * r = unit /\ q % 2 = 1) THEN q + 1 ELSE q
    IN  tenths * (PctDen \div 10)

---------------------------------------------------------------------------
(* get_tier_explanation, forecast_service.py:218-266.  The authority gap   *)
(* is written in 1/GapDen points.  The returned string                     *)
(* "<base>. Factors: <r1>, <r2>." is the record of its base sentence and   *)
(* of the sequence of its reasons; a reason is the record of its fixed     *)
(* words and of the number it shows.                                       *)

GapDen == 10

Reason(kind, words, shown) == [kind |-> kind, words |-> words, shown |-> shown]

\* abs(int(dt_gap)) of a negative gap: int truncates towards zero
ShownGap(dt_gap) == (0 - dt_gap) \div GapDen

\* lines 235-240
AuthorityReasons(dt_gap) ==
    IF dt_gap < (0 - 20) * GapDen
    THEN <<Reason("authority", "Significant authority gap", ShownGap(dt_gap))>>
    ELSE IF dt_gap < (0 - 10) * GapDen
    THEN <<Reason("authority", "Moderate authority gap", ShownGap(dt_gap))>>
    ELSE IF dt_gap < 0
    THEN <<Reason("authority", "Slight authority gap", ShownGap(dt_gap))>>
    ELSE <<>>

\* lines 243-246
BrandReasons(giant_brand_count) ==
    IF giant_brand_count >= 4
    THEN <<Reason("brand", "Highly dominated by giant brands", giant_brand_count)>>
    ELSE IF giant_brand_count >= 2
    THEN <<Reason("brand", "Some giant brand competition", giant_brand_count)>>
    ELSE <<>>

\* lines 249-253
HeadReasons(query) ==
    IF TokenCount(query) <= 2
    THEN <<Reason("head", "Very generic head term (highly competitive)", 0)>>
    ELSE IF TokenCount(query) <= 3
    THEN <<Reason("head", "Moderately generic term", 0)>>
    ELSE <<>>

GenericReason == Reason("generic", "Competitive but achievable with strong execution", 0)

\* lines 258-265: tier_meanings.get(tier, "Unknown tier")
TierMeaning(tier) ==
    IF tier = "T1_GO_NOW"
    THEN "High-Probability Wins - Your site can credibly break into Top-10 if you build a strong page"
    ELSE IF tier = "T2_STRATEGIC"
    THEN "Strategic Targets - Competitive, but achievable with great execution"
    ELSE IF tier = "T3_LONG_GAME"
    THEN "Long-Game Plays - Very competitive, require long-term authority growth"
    ELSE IF tier = "T4_NOT_WORTH_IT"
    THEN "Not Worth It - Dominated by giant brands/head terms, unlikely to crack Top-10"
    ELSE "Unknown tier"

get_tier_explanation_brand_first(tier, pct, dt_gap, giant_brand_count, query) ==
    LET reasons == BrandReasons(giant_brand_count) \o AuthorityReasons(dt_gap)
                   \o HeadReasons(query)
    IN  [base |-> TierMeaning(tier),
         reasons |-> IF reasons = <<>> THEN <<GenericReason>> ELSE reasons]

get_tier_explanation(tier, pct, dt_gap, giant_brand_count, query) ==
    LET reasons == AuthorityReasons(dt_gap) \o BrandReasons(giant_brand_count)
                   \o HeadReasons(query)
    IN  [base |-> TierMeaning(tier),
         reasons |-> IF reasons = <<>> THEN <<GenericReason>> ELSE reasons]

NoExplanation == [base |-> "", reasons |-> <<>>]

---------------------------------------------------------------------------
(* compute_domain_fit and compute_intent_fit, forecast_service.py:502-618. *)
(* A score is an exact fraction [n, d] with d > 0 until it is rounded;     *)
(* a returned score is a whole number of tenths.                           *)

\* round(x, 1) of x = n / d, d > 0, in tenths: to the nearest tenth, a tie
\* to the even one
RoundTenths(n, d) ==
    LET m == IF n >= 0 THEN 10 * n ELSE 0 - (10 * n)
        q == m \div d
        rem == m % d
        up == 2 * rem > d \/ (2 * rem = d /\ q % 2 = 1)
        r == IF up THEN q + 1 ELSE q
    IN  IF n >= 0 THEN r ELSE 0 - r

\* lines 522-523: own / reference if reference > 0 else 1.0, as a fraction;
\* NaN > 0 is false, NaN / reference is NaN
FitRatio(own, ref) ==
    IF IsNum(ref) /\ ref.v > 0
    THEN IF IsNan(own) THEN NaN ELSE [k |-> "num", v |-> own.v, d |-> ref.v]
    ELSE [k |-> "num", v |-> 1, d |-> 1]

\* lines 529-532 on combined_ratio = (55 * dt_ratio + 45 * rd_ratio) / 100:
\* both branches give 50 * combined_ratio = n / d, limited to 100 in the
\* first and to 0 in the second
DomainScore_unlimited(n, d) == [n |-> n, d |-> d]

DomainScore(n, d) ==
    IF n >= 50 * d
    THEN IF n > 100 * d THEN [n |-> 100, d |-> 1] ELSE [n |-> n, d |-> d]
    ELSE IF n < 0 THEN [n |-> 0, d |-> 1] ELSE [n |-> n, d |-> d]

\* lines 535-544, on the score before it is rounded
DomainExplanation(score) ==
    IF score.n >= 80 * score.d
    THEN "Strong authority match - your domain can compete with current Top 10"
    ELSE IF score.n >= 60 * score.d
    THEN "Good authority match - competitive but may need content edge"
    ELSE IF score.n >= 40 * score.d
    THEN "Moderate authority gap - focus on content quality and relevance"
    ELSE IF score.n >= 20 * score.d
    THEN "Significant authority gap - target long-tail or build authority first"
    ELSE "Large authority gap - this SERP may be out of reach currently"

\* compute_domain_fit, lines 502-546; a NaN combined_ratio fails the test
\* of line 529 and max(0, NaN) is 0
compute_domain_fit(client_domain_trust, client_referring_domains, serp_median_dt, serp_median_refdoms) ==
    LET dt_ratio == FitRatio(client_domain_trust, serp_median_dt)
        rd_ratio == FitRatio(client_referring_domains, serp_median_refdoms)
        score == IF IsNan(dt_ratio) \/ IsNan(rd_ratio) THEN [n |-> 0, d |-> 1]
                 ELSE DomainScore(55 * dt_ratio.v * rd_ratio.d + 45 * rd_ratio.v * dt_ratio.d,
                                  2 * dt_ratio.d * rd_ratio.d)
    IN  [score |-> RoundTenths(score.n, score.d), explanation |-> DomainExplanation(score)]

\* lines 606-613, the score in 1/100
IntentExplanation(score) ==
    IF score >= 7500 THEN "Excellent vertical match"
    ELSE IF score >= 5000 THEN "Good vertical match"
    ELSE IF score >= 2500 THEN "Partial vertical match"
    ELSE "Low vertical match"

\* float(np.max(similarities)), the similarities in 1/1000
RECURSIVE MaxSim(_)
MaxSim(topics) ==
    IF Len(topics) = 1 THEN topics[1].sim
    ELSE LET rest == MaxSim(Tail(topics))
         IN  IF topics[1].sim >= rest THEN topics[1].sim ELSE rest

\* line 604
IntentLimit(score) == IF score > 10000 THEN 10000 ELSE score

\* compute_intent_fit, lines 548-618.  Of the keyword and the vertical the
\* model keeps what the substring tests of lines 570-583 and 600 find:
\* a.vertical_known, a.keyword_hit (some keyword of the vertical is in the
\* keyword), a.modifier_hit, and per client topic its hit.  a.topics is the
\* client_vertical_keywords list (a.given is false for None), each topic
\* with the similarity the embedding model gives it; a.encode_fails tells
\* whether the embedding model raises.  The score is kept in 1/100.
compute_intent_fit(a) ==
    LET pattern == IF a.vertical_known
                   THEN (IF a.keyword_hit THEN 2500 ELSE 0) + (IF a.modifier_hit THEN 1000 ELSE 0)
                   ELSE 0
        matches == IF a.vertical_known
                   THEN (IF a.keyword_hit THEN <<"keyword">> ELSE <<>>)
                        \o (IF a.modifier_hit THEN <<"modifier">> ELSE <<>>)
                   ELSE <<>>
        semantic == IF ~a.given \/ a.topics = <<>> THEN 0
                    ELSE IF a.encode_fails
                    THEN IF \E i \in 1..Len(a.topics) : a.topics[i].hit THEN 1500 ELSE 0
                    ELSE 5 * MaxSim(a.topics)
        score == IntentLimit(pattern + semantic)
    IN  [score |-> RoundTenths(score, 100),
         explanation |-> [words |-> IntentExplanation(score), matches |-> matches]]

NoFit == [score |-> 0, explanation |-> ""]

---------------------------------------------------------------------------
(* Feature values: Python floats produced by the builder, as fractions n/d *)
(* (d # 0) or NaN                                                          *)

FNum(n, d) == [k |-> "num", n |-> n, d |-> d]
FNaN == [k |-> "nan", n |-> 0, d |-> 1]
FZero == FNum(0, 1)
FOne == FNum(1, 1)

---------------------------------------------------------------------------
(* Mappings (Python dicts with string keys) are functions; a key that is   *)
(* missing from the dict is outside the DOMAIN                             *)

\* d.get(key, default)
DictGet(d, key, default) == IF key \in DOMAIN d THEN d[key] ELSE default

---------------------------------------------------------------------------
(* MLModel, ml_model.py:38-187 *)

\* one row per metric, in the order of lines 110-139: the key read from
\* user_metrics, the key read from serp_medians, the gap feature and the
\* ratio feature ("" when the metric has none)
Metrics ==
    << [user |-> "domain_trust", serp |-> "dt",
        gap |-> "dt_gap", ratio |-> "dt_ratio"],
       [user |-> "referring_domains", serp |-> "referring_domains",
        gap |-> "refdoms_gap", ratio |-> "refdoms_ratio"],
       [user |-> "word_count", serp |-> "word_count",
        gap |-> "wc_gap", ratio |-> "wc_ratio"],
       [user |-> "sentence_count", serp |-> "sentence_count",
        gap |-> "sent_count_gap", ratio |-> ""],
       [user |-> "average_words_per_sentence", serp |-> "average_words_per_sentence",
        gap |-> "awps_gap", ratio |-> ""],
       [user |-> "flesch_reading_ease_score", serp |-> "flesch_reading_ease_score",
        gap |-> "flesch_gap", ratio |-> ""],
       [user |-> "semantic_topic_score", serp |-> "semantic_topic_score",
        gap |-> "semantic_gap", ratio |-> "semantic_ratio"],
       [user |-> "internal_links", serp |-> "internal_links",
        gap |-> "internal_links_gap", ratio |-> ""],
       [user |-> "total_schema_types", serp |-> "total_schema_types",
        gap |-> "schema_total_gap", ratio |-> ""],
       [user |-> "unique_schema_types", serp |-> "unique_schema_types",
        gap |-> "schema_unique_gap", ratio |-> ""],
       [user |-> "rich_result_features", serp |-> "rich_result_features",
        gap |-> "rich_features_gap", ratio |-> ""] >>

NMetrics == Len(Metrics)

\* the ratio with a negative or zero denominator treated alike (den <= 0)
safe_ratio_nonpositive(num, den) ==
    IF IsNone(den) \/ (IsNum(den) /\ den.v <= 0) \/ IsNan(den) THEN FOne
    ELSE IF IsNone(num) \/ IsNan(num) THEN FOne
    ELSE FNum(num.v, den.v)

\* safe_ratio, lines 14-23, with default = 1.0
safe_ratio(num, den) ==
    IF IsNone(den) \/ (IsNum(den) /\ den.v = 0) \/ IsNan(den) THEN FOne
    ELSE IF IsNone(num) \/ IsNan(num) THEN FOne
    ELSE FNum(num.v, den.v)

\* the reference default of lines 83-93 and the candidate default of
\* lines 95-105
Top10Of(sm, m) == DictGet(sm, m.serp, Num(1))
UserOf(um, m) == DictGet(um, m.user, Num(0))

\* "(user - top10) / top10 if top10 > 0 else 0.0" raises TypeError when
\* top10 is None (None > 0), and when top10 > 0 and user is None (None - top10)
GapRaises(user, top10) ==
    \/ IsNone(top10)
    \/ IsNum(top10) /\ top10.v > 0 /\ IsNone(user)

\* its value otherwise; NaN > 0 is false, NaN - top10 is NaN
GapValue(user, top10) ==
    IF IsNum(top10) /\ top10.v > 0
    THEN IF IsNan(user) THEN FNaN ELSE FNum(user.v - top10.v, top10.v)
    ELSE FZero

\* the entries one metric adds to the features dict, in insertion order
MetricFeatures(um, sm, m) ==
    LET user == UserOf(um, m)
        top10 == Top10Of(sm, m)
    IN  << <<m.gap, GapValue(user, top10)>> >>
        \o (IF m.ratio = "" THEN <<>> ELSE << <<m.ratio, safe_ratio(user, top10)>> >>)

RECURSIVE BuildFrom(_, _, _)
\* the entries of metrics i..NMetrics
BuildFrom(um, sm, i) ==
    IF i > NMetrics THEN <<>>
    ELSE MetricFeatures(um, sm, Metrics[i]) \o BuildFrom(um, sm, i + 1)

\* lines 107-141 once the handle is loaded: the features dict as a sequence
\* of <<name, value>> in insertion order, or the TypeError of the first
\* gap expression that raises
BuildFeatures(um, sm) ==
    IF \E i \in 1..NMetrics : GapRaises(UserOf(um, Metrics[i]), Top10Of(sm, Metrics[i]))
    THEN [k |-> "raise", v |-> <<>>, exc |-> "TypeError"]
    ELSE [k |-> "ok", v |-> BuildFrom(um, sm, 1), exc |-> ""]

NotBuilt == [k |-> "none", v |-> <<>>, exc |-> ""]

\* feature_vector.get(name, 0.0) on the built dict
VectorGet(fv, name) ==
    IF \E j \in 1..Len(fv) : fv[j][1] = name
    THEN fv[CHOOSE j \in 1..Len(fv) : fv[j][1] = name][2]
    ELSE FZero

\* the row filled by position, ignoring the names
FeatureArray_positional(fv, feature_list) ==
    [i \in 1..Len(feature_list) |-> IF i <= Len(fv) THEN fv[i][2] ELSE FZero]

\* lines 165-167 and forecast_service.py:417
FeatureArray(fv, feature_list) ==
    [i \in 1..Len(feature_list) |-> VectorGet(fv, feature_list[i])]

\* MLModel.__init__, lines 41-44
NewHandle == [model |-> "None", feature_list |-> <<>>, has_list |-> FALSE, loaded |-> FALSE]

\* what the model would do if load_model did not test the feature-list file
load_model_unchecked(h, d) ==
    IF h.loaded THEN [h |-> h, exc |-> ""]
    ELSE IF ~d.model_file THEN [h |-> h, exc |-> "FileNotFoundError"]
    ELSE [h |-> [h EXCEPT !.model = "classifier",
                          !.feature_list = d.feature_names,
                          !.has_list = TRUE,
                          !.loaded = TRUE],
          exc |-> ""]

\* load_model, lines 46-68: the handle after the call and the exception
\* that left it ("" when it returned)
load_model(h, d) ==
    IF h.loaded THEN [h |-> h, exc |-> ""]
    ELSE IF ~d.model_file THEN [h |-> h, exc |-> "FileNotFoundError"]
    ELSE LET h1 == [h EXCEPT !.model = "classifier"]
         IN  IF ~d.feature_file THEN [h |-> h1, exc |-> "FileNotFoundError"]
             ELSE [h |-> [h1 EXCEPT !.feature_list = d.feature_names,
                                    !.has_list = TRUE,
                                    !.loaded = TRUE],
                   exc |-> ""]

\* classify_opportunity, lines 26-35, with HIGH_THRESH 0.60 and LOW_THRESH
\* 0.35 of config.py:39-40; p in 1/RawDen
classify_opportunity(p) ==
    IF 100 * p >= 60 * RawDen THEN "HIGH"
    ELSE IF 100 * p >= 35 * RawDen THEN "MEDIUM"
    ELSE "LOW"

NoFrame == [given |-> FALSE, columns |-> <<>>, row |-> <<>>]
\* pd.DataFrame([feature_array], columns=feature_list)
Frame(feature_array, feature_list) ==
    [given |-> TRUE, columns |-> feature_list, row |-> feature_array]

NoResult == [k |-> "none", v |-> 0, tier |-> "", exc |-> ""]

---------------------------------------------------------------------------
(* Content profiles of forecast_keyword_rank_likelihood,                   *)
(* forecast_service.py:348-400.  A result of the reference group is a      *)
(* record: giant tells whether its url is on a giant brand's domain, m is  *)
(* the mapping of its content metrics (whole numbers).  The values of one  *)
(* metric over the group are written in 1/TenDen, so that the default 0.7  *)
(* is 7; a median or percentile of them is written in 1/ProfDen.           *)

TenDen == 10
ProfDen == 4 * TenDen

\* the keys of content_metrics, lines 385-395, with the default of r.get
ContentMetrics ==
    <<[name |-> "word_count", default |-> 0],
      [name |-> "sentence_count", default |-> 0],
      [name |-> "average_words_per_sentence", default |-> 0],
      [name |-> "flesch_reading_ease_score", default |-> 0],
      [name |-> "total_schema_types", default |-> 0],
      [name |-> "unique_schema_types", default |-> 0],
      [name |-> "internal_links", default |-> 0],
      [name |-> "rich_result_features", default |-> 0],
      [name |-> "semantic_topic_score", default |-> 7]>>
ContentNames == {ContentMetrics[i].name : i \in 1..Len(ContentMetrics)}

\* line 349: enriched_results[:10] if len(enriched_results) >= 10 else enriched_results
Top10(enriched_results) ==
    IF Len(enriched_results) >= 10 THEN SubSeq(enriched_results, 1, 10)
    ELSE enriched_results

\* [r.get(metric, default) for r in top10], in 1/TenDen
MetricList(top10, c) ==
    [i \in 1..Len(top10) |->
        IF c.name \in DOMAIN top10[i].m THEN TenDen * top10[i].m[c.name] ELSE c.default]

\* numpy sorts (partitions) the values before it interpolates
RECURSIVE InsertSorted(_, _)
InsertSorted(s, x) ==
    IF s = <<>> THEN <<x>>
    ELSE IF x <= Head(s) THEN <<x>> \o s
    ELSE <<Head(s)>> \o InsertSorted(Tail(s), x)

RECURSIVE SortedSeq(_)
SortedSeq(v) ==
    IF v = <<>> THEN <<>> ELSE InsertSorted(SortedSeq(Tail(v)), Head(v))

\* np.percentile(v, 25 * quarter) with numpy's default linear interpolation
\* at position (n - 1) * quarter / 4 of the sorted values, times 4
Percentile_unsorted(v, quarter) ==
    LET pos4 == (Len(v) - 1) * quarter
        lo == (pos4 \div 4) + 1
        fr == pos4 % 4
        hi == IF fr = 0 THEN lo ELSE lo + 1
    IN  4 * v[lo] + fr * (v[hi] - v[lo])

Percentile(v, quarter) ==
    LET sorted == SortedSeq(v)
        pos4 == (Len(v) - 1) * quarter
        lo == (pos4 \div 4) + 1
        fr == pos4 % 4
        hi == IF fr = 0 THEN lo ELSE lo + 1
    IN  4 * sorted[lo] + fr * (sorted[hi] - sorted[lo])

\* np.median(v): the middle value, or the mean of the two middle values,
\* times 4
Median(v) ==
    LET sorted == SortedSeq(v)
        n == Len(v)
    IN  IF n % 2 = 1 THEN 4 * sorted[(n + 1) \div 2]
        ELSE 2 * (sorted[n \div 2] + sorted[(n \div 2) + 1])

ContentList(top10, name) ==
    MetricList(top10, CHOOSE c \in {ContentMetrics[i] : i \in 1..Len(ContentMetrics)} :
                          c.name = name)

\* median_content, q25_content, q75_content of lines 398-400, in 1/ProfDen
ContentProfiles(top10) ==
    [median |-> [name \in ContentNames |-> Median(ContentList(top10, name))],
     q25 |-> [name \in ContentNames |-> Percentile(ContentList(top10, name), 1)],
     q75 |-> [name \in ContentNames |-> Percentile(ContentList(top10, name), 3)]]

NoProfiles == [median |-> <<>>, q25 |-> <<>>, q75 |-> <<>>]

---------------------------------------------------------------------------
(* Inputs of the feature-vector builder and of the gateway *)

Absent == [k |-> "absent", v |-> 0]
\* what a metric can be: missing from the mapping, None, NaN, or a number
MetricValues == {Absent, None, NaN} \cup {Num(n) : n \in -1..MaxMetric}
\* what the other metrics are meanwhile, in a call of the builder
BaseValues == {Absent, NaN, Num(MaxMetric)}
\* and in a call that goes on to the classifier
ScoredBaseValues == {Num(MaxMetric)}

\* the mapping that gives metric `focus` the value a and the others b,
\* keyed by the user_metrics keys (side = "user") or the serp_medians keys
MappingOf(side, focus, a, b) ==
    LET val(i) == IF i = focus THEN a ELSE b
        key(i) == IF side = "user" THEN Metrics[i].user ELSE Metrics[i].serp
        present == {i \in 1..NMetrics : val(i) # Absent}
    IN  [name \in {key(i) : i \in present} |->
            val(CHOOSE i \in present : key(i) = name)]

\* the names in the order build_feature_vector produces them
BuilderNames ==
    LET fv == BuildFrom(<<>>, <<>>, 1) IN [i \in 1..Len(fv) |-> fv[i][1]]

Rotate(s, n) == [i \in 1..Len(s) |-> s[((i - 1 + n) % Len(s)) + 1]]
Reverse(s) == [i \in 1..Len(s) |-> s[Len(s) + 1 - i]]

\* contents of the feature-list file: the builder's names in several
\* orders, and a short list with a name the builder does not produce
FeatureFiles ==
    {Rotate(BuilderNames, n) : n \in 0..MaxRot}
    \cup {Reverse(BuilderNames)}
    \cup {<<"wc_ratio", "page_speed", "dt_gap">>}

\* what predict_proba does with a frame: it returns a probability (in
\* 1/RawDen) or raises
ProbaOutcomes == {Raised("Exception")} \cup {Returned(p) : p \in {200, 600}}

---------------------------------------------------------------------------
(* Inputs of the calibrator *)

RawProbs == {None, NaN} \cup {Num(n) : n \in {-500, 1, 500, 600, 1000, 1500}}
RefAuthorities == {None, NaN, Num(30)}
OwnAuthorities == {None, NaN} \cup {Num(n) : n \in {0, 10, 11, 20, 21, 29, 30, 35}}
RefBacklinks == {None, NaN, Num(-20), Num(0), Num(20)}
OwnBacklinks == {None, NaN} \cup {Num(n) : n \in {0, 1, 2, 4, 9, 10, 20, 30}}

CalArgs ==
    [raw_prob : RawProbs,
     median_dt_serp : RefAuthorities,
     median_ref_serp : RefBacklinks,
     my_dt : OwnAuthorities,
     my_ref : OwnBacklinks,
     query : Queries,
     giant_brand_count : 0..MaxGiant]

NoArgs ==
    [raw_prob |-> None, median_dt_serp |-> None, median_ref_serp |-> None,
     my_dt |-> None, my_ref |-> None, query |-> <<>>, giant_brand_count |-> 0]

\* percentages around the three thresholds, and far from them
PctInputs ==
    {t * PctDen + d : t \in {4, 10, 20}, d \in (0 - MaxDelta)..MaxDelta}
    \cup {0 - PctDen, 0, 1, 50 * PctDen, 100 * PctDen}

---------------------------------------------------------------------------
(* forecast_keyword_rank_likelihood, forecast_service.py:329-498.  f holds *)
(* the arguments keyword, enriched_results, serp_medians and               *)
(* target_domain_url (whether one is given), and the answers of the        *)
(* collaborators: dt_lookup and ref_lookup of get_dt_for_domain and        *)
(* get_refdoms_for_domain, proba of predict_proba for the median, the 25th *)
(* and the 75th percentile profile.  Authorities and backlink counts are   *)
(* numbers or None.                                                        *)

\* bool(x) of a float or None
Truthy(x) == ~IsNone(x) /\ ~(IsNum(x) /\ x.v = 0)

\* count_giant_brands, lines 95-105
count_giant_brands(enriched_results) ==
    Cardinality({i \in 1..Len(enriched_results) : enriched_results[i].giant})

\* build_user_metrics, lines 403-408; the content values are in 1/ProfDen
build_user_metrics(my_dt, my_refdoms, serp_median_dt, serp_median_refdoms, content_profile) ==
    [name \in {"domain_trust", "referring_domains"} \cup ContentNames |->
        IF name = "domain_trust"
        THEN (IF ~IsNone(my_dt) THEN my_dt ELSE serp_median_dt)
        ELSE IF name = "referring_domains"
        THEN (IF ~IsNone(my_refdoms) THEN my_refdoms ELSE serp_median_refdoms)
        ELSE Num(content_profile[name])]

\* get_raw_prob, lines 415-423: the handle after the call, the outcome, and
\* whether predict_proba was called
get_raw_prob(h, d, um, sm, proba) ==
    LET ld == load_model(h, d)
        fv == BuildFeatures(um, sm)
    IN  IF ld.exc # "" THEN [h |-> ld.h, out |-> Raised(ld.exc), called |-> 0]
        ELSE IF fv.k = "raise" THEN [h |-> ld.h, out |-> Raised(fv.exc), called |-> 0]
        ELSE [h |-> ld.h,
              out |-> IF proba.k = "raise" THEN Returned(0) ELSE Returned(proba.v),
              called |-> 1]

Triple(a, b, c) == [median |-> a, q25 |-> b, q75 |-> c]

NoForecast ==
    [k |-> "none", exc |-> "", error |-> "",
     pct |-> Triple(0, 0, 0), tiers |-> Triple("", "", ""), raw |-> Triple(0, 0, 0),
     cal |-> NoArgs, profiles |-> Triple(<<>>, <<>>, <<>>),
     serp_median_dt |-> None, serp_median_refdoms |-> None,
     my_dt |-> None, my_referring_domains |-> None,
     dt_gap |-> 0, giant_brand_count |-> 0, tier_explanation |-> NoExplanation,
     lookups |-> 0, proba_calls |-> 0]

\* lines 352-358
EmptyForecast == [NoForecast EXCEPT !.k = "ok", !.error = "No SERP results available"]

\* lines 360-498
ForecastOnGroup(f, h, d) ==
    LET top10 == Top10(f.enriched_results)
        giant_brand_count == count_giant_brands(f.enriched_results)
        dt_found == IF f.target_domain_url THEN f.dt_lookup ELSE None
        ref_found == IF f.target_domain_url THEN f.ref_lookup ELSE None
        lookups == IF f.target_domain_url THEN 1 ELSE 0
        serp_median_dt == DictGet(f.serp_medians, "dt", Num(0))
        serp_median_refdoms == DictGet(f.serp_medians, "referring_domains", Num(0))
        known == ~IsNone(dt_found)
        dt_gap == IF known THEN dt_found.v - serp_median_dt.v ELSE 0
        my_dt == IF known THEN dt_found ELSE serp_median_dt
        my_refdoms == IF known THEN ref_found ELSE serp_median_refdoms
        content == ContentProfiles(top10)
        um == Triple(build_user_metrics(my_dt, my_refdoms, serp_median_dt,
                                        serp_median_refdoms, content.median),
                     build_user_metrics(my_dt, my_refdoms, serp_median_dt,
                                        serp_median_refdoms, content.q25),
                     build_user_metrics(my_dt, my_refdoms, serp_median_dt,
                                        serp_median_refdoms, content.q75))
        r1 == get_raw_prob(h, d, um.median, f.serp_medians, f.proba.median)
        r2 == get_raw_prob(r1.h, d, um.q25, f.serp_medians, f.proba.q25)
        r3 == get_raw_prob(r2.h, d, um.q75, f.serp_medians, f.proba.q75)
        args(raw) ==
            [raw_prob |-> Num(raw),
             median_dt_serp |-> IF Truthy(serp_median_dt) THEN serp_median_dt ELSE Num(40),
             median_ref_serp |-> IF Truthy(serp_median_refdoms) THEN serp_median_refdoms ELSE Num(0),
             my_dt |-> IF ~IsNone(my_dt) THEN my_dt ELSE Num(40),
             my_ref |-> IF ~IsNone(my_refdoms) THEN my_refdoms ELSE Num(0),
             query |-> f.keyword,
             giant_brand_count |-> giant_brand_count]
        c1 == calibrate_rank_probability(args(r1.out.v))
        c2 == calibrate_rank_probability(args(r2.out.v))
        c3 == calibrate_rank_probability(args(r3.out.v))
        pct == Triple(RoundPct(c1.v), RoundPct(c2.v), RoundPct(c3.v))
        tiers == Triple(bucket_keyword_forecast_tier(pct.median),
                        bucket_keyword_forecast_tier(pct.q25),
                        bucket_keyword_forecast_tier(pct.q75))
        seen == [NoForecast EXCEPT !.lookups = lookups, !.profiles = um]
        raised(exc, calls) ==
            [seen EXCEPT !.k = "raise", !.exc = exc, !.proba_calls = calls]
    IN  IF r1.out.k = "raise" THEN [h |-> r1.h, out |-> raised(r1.out.exc, 0)]
        ELSE IF r2.out.k = "raise" THEN [h |-> r2.h, out |-> raised(r2.out.exc, 1)]
        ELSE IF r3.out.k = "raise" THEN [h |-> r3.h, out |-> raised(r3.out.exc, 2)]
        ELSE IF c1.k = "raise" THEN [h |-> r3.h, out |-> raised(c1.exc, 3)]
        ELSE [h |-> r3.h,
              out |-> [seen EXCEPT
                        !.k = "ok",
                        !.proba_calls = 3,
                        !.raw = Triple(r1.out.v, r2.out.v, r3.out.v),
                        !.cal = args(r1.out.v),
                        !.pct = pct,
                        !.tiers = tiers,
                        !.serp_median_dt = serp_median_dt,
                        !.serp_median_refdoms =
                            IF Truthy(serp_median_refdoms) THEN serp_median_refdoms ELSE Num(0),
                        !.my_dt = my_dt,
                        !.my_referring_domains = my_refdoms,
                        !.dt_gap = dt_gap,
                        !.giant_brand_count = giant_brand_count,
                        !.tier_explanation =
                            get_tier_explanation(tiers.median, pct.median, dt_gap * GapDen,
                                                 giant_brand_count, f.keyword)]]

\* what the model would do if the authority were looked up before the
\* reference group is tested
forecast_lookup_first(f, h, d) ==
    IF Top10(f.enriched_results) = <<>>
    THEN [h |-> h,
          out |-> [EmptyForecast EXCEPT !.lookups = IF f.target_domain_url THEN 1 ELSE 0]]
    ELSE ForecastOnGroup(f, h, d)

\* lines 348-358, then the rest
forecast_keyword_rank_likelihood(f, h, d) ==
    IF Top10(f.enriched_results) = <<>>
    THEN [h |-> h, out |-> EmptyForecast]
    ELSE ForecastOnGroup(f, h, d)

NoForecastArgs ==
    [keyword |-> <<>>, enriched_results |-> <<>>, serp_medians |-> <<>>,
     target_domain_url |-> FALSE, dt_lookup |-> None, ref_lookup |-> None,
     proba |-> Triple(Returned(0), Returned(0), Returned(0))]

---------------------------------------------------------------------------
(* compute_client_forecast, forecast_service.py:620-694.  a holds the      *)
(* arguments: win_score in 1/RawDen, domain_fit and intent_fit in tenths   *)
(* of a point, keyword_difficulty and search_volume a whole number or      *)
(* None.  The forecast is kept in 1/BlendDen points: win_score * 100 *     *)
(* 0.40 is 80 win_score / BlendDen, domain_fit * 0.35 is 70 tenths /       *)
(* BlendDen, intent_fit * 0.25 is 50 tenths / BlendDen, (50 - kd) * 0.1 is *)
(* 200 (50 - kd) / BlendDen and volume / 2000 is volume / BlendDen.        *)

BlendDen == 2000

\* lines 651-655
BaseForecast(a) == 80 * a.win_score + 70 * a.domain_fit + 50 * a.intent_fit

\* lines 658-660
KdAdjustment(keyword_difficulty) ==
    IF IsNone(keyword_difficulty) THEN 0 ELSE 200 * (50 - keyword_difficulty.v)

\* the bonus given to every supplied volume
VolumeBonus_always(search_volume) ==
    IF IsNone(search_volume) THEN 0 ELSE Min(5 * BlendDen, search_volume.v)

\* lines 663-665
VolumeBonus(search_volume) ==
    IF ~IsNone(search_volume) /\ search_volume.v > 1000
    THEN Min(5 * BlendDen, search_volume.v)
    ELSE 0

\* line 667
ForecastPct(a) ==
    Max(0, Min(100 * BlendDen,
               BaseForecast(a) + KdAdjustment(a.keyword_difficulty)
                 + VolumeBonus(a.search_volume)))

\* lines 670-684
ClientTier(forecast_pct) ==
    IF forecast_pct >= 70 * BlendDen THEN "HIGH_PRIORITY"
    ELSE IF forecast_pct >= 50 * BlendDen THEN "GOOD_FIT"
    ELSE IF forecast_pct >= 35 * BlendDen THEN "CONSIDER"
    ELSE IF forecast_pct >= 20 * BlendDen THEN "LONG_TERM"
    ELSE "NOT_RECOMMENDED"

\* the base sentence of lines 670-684, by its first words
BaseRecommendation(tier) ==
    CASE tier = "HIGH_PRIORITY" -> "Strong opportunity"
      [] tier = "GOOD_FIT" -> "Good opportunity"
      [] tier = "CONSIDER" -> "Moderate opportunity"
      [] tier = "LONG_TERM" -> "Challenging opportunity"
      [] tier = "NOT_RECOMMENDED" -> "Poor fit"

\* lines 687-692: the note appended to the base sentence, "" for none
RecommendationNote(a) ==
    IF a.domain_fit < 300 /\ a.intent_fit >= 600
    THEN "Good topical fit but authority gap"
    ELSE IF a.intent_fit < 300 /\ a.domain_fit >= 600
    THEN "Strong authority but weak topical relevance"
    ELSE IF 10 * a.win_score < 3 * RawDen /\ a.domain_fit >= 500 /\ a.intent_fit >= 500
    THEN "Competitive SERP"
    ELSE ""

\* the whole function: round(forecast_pct, 1) in tenths, the tier and the
\* recommendation
compute_client_forecast(a) ==
    LET forecast_pct == ForecastPct(a)
        tier == ClientTier(forecast_pct)
    IN  [score |-> RoundTenths(forecast_pct, BlendDen),
         tier |-> tier,
         recommendation |-> [base |-> BaseRecommendation(tier), note |-> RecommendationNote(a)]]

NoClientArgs ==
    [win_score |-> 0, domain_fit |-> 0, intent_fit |-> 0,
     keyword_difficulty |-> None, search_volume |-> None]
NoClientForecast == [score |-> 0, tier |-> "", recommendation |-> [base |-> "", note |-> ""]]

---------------------------------------------------------------------------
(* analyze_keyword_with_client_profile, forecast_service.py:696-750.  The  *)
(* forecast result is the record the forecast returned; p holds what       *)
(* compute_intent_fit finds for the keyword and the client profile.        *)

\* x or 0 of a float or None
OrZero(x) == IF Truthy(x) THEN x ELSE Num(0)

\* the forecast result with a key written into it, as the call would leave
\* its argument if it updated the dict in place
analyze_in_place(forecast_result, p) ==
    [forecast_result |-> [forecast_result EXCEPT !.error = "analyzed"],
     enhanced |-> [forecast |-> forecast_result, domain_fit |-> NoFit,
                   intent_fit |-> NoFit, client_forecast |-> NoClientForecast]]

\* the forecast result after the call and the enhanced result.  A forecast
\* for an empty reference group has none of the keys read by lines 715-719:
\* every get gives 0, as the record's None and 0 do
analyze_keyword_with_client_profile(forecast_result, p) ==
    LET domain_fit == compute_domain_fit(OrZero(forecast_result.my_dt),
                                         OrZero(forecast_result.my_referring_domains),
                                         OrZero(forecast_result.serp_median_dt),
                                         OrZero(forecast_result.serp_median_refdoms))
        intent_fit == compute_intent_fit(p)
        \* baseline_median_pct / 100.0, in 1/RawDen
        win_score == (forecast_result.pct.median * 10) \div PctDen
        client == compute_client_forecast(
                      [NoClientArgs EXCEPT !.win_score = win_score,
                                           !.domain_fit = domain_fit.score,
                                           !.intent_fit = intent_fit.score])
    IN  [forecast_result |-> forecast_result,
         enhanced |-> [forecast |-> forecast_result, domain_fit |-> domain_fit,
                       intent_fit |-> intent_fit, client_forecast |-> client]]

NoEnhanced ==
    [forecast_result |-> NoForecast,
     enhanced |-> [forecast |-> NoForecast, domain_fit |-> NoFit,
                   intent_fit |-> NoFit, client_forecast |-> NoClientForecast]]

---------------------------------------------------------------------------
(* The batch endpoints of api/strategy.py: score_keywords and *)
(* score_selected_keywords *)

\* a keyword row, models/database.py:50-65.  rankability_score is held as
\* the percentage it is the hundredth of, in 1/PctDen; scored_at is 0 for
\* None, 1 for the time of an earlier call and 2 for the time of this call;
\* analyses counts the KeywordAnalysis rows this call added for the keyword
NewRow ==
    [rankability_score |-> 0, opportunity_tier |-> "LOW", domain_fit |-> None,
     intent_fit |-> None, client_forecast |-> None, forecast_tier |-> "",
     scored_at |-> 0, analyses |-> 0]

\* KeywordResponse(...), lines 362-378 and 669-685
KeywordResponse(id, row, forecast_pct, domain_fit, intent_fit, client_forecast) ==
    [id |-> id, rankability_score |-> row.rankability_score,
     opportunity_tier |-> row.opportunity_tier, forecast_pct |-> forecast_pct,
     domain_fit |-> domain_fit, intent_fit |-> intent_fit,
     client_forecast |-> client_forecast]

\* lines 209: if keyword_obj.scored_at and not force_rescore, which only
\* score_keywords has
Skips(in, row) ==
    in.endpoint = "score_keywords" /\ row.scored_at # 0 /\ ~in.force_rescore

\* lines 211-247: the response built from the stored scores
StoredResponse(id, row) ==
    KeywordResponse(id, row,
                    IF row.rankability_score # 0 THEN Num(row.rankability_score) ELSE None,
                    row.domain_fit, row.intent_fit, row.client_forecast)

\* what one pass through the loop body gives: the row, the increment of
\* keywords_scored, the responses appended, the exception that left the body
Pass(row, counted, response, exc) ==
    [row |-> row, counted |-> counted, response |-> response, exc |-> exc]

\* the body of the try statement, lines 250-382 and 575-690, for keyword id
\* whose forecast call gives r.  kw.gather says whether the reference group
\* came from a cached analysis, was fetched, or could not be fetched because
\* a collaborator raised; in.strings says whether the client's topics are
\* all strings: on one that is not, encode raises, and so does topic.lower()
\* in the handler of compute_intent_fit (lines 586-601)
try_body(id, kw, in, r) ==
    LET added == IF kw.gather = "fetched" THEN [kw.row EXCEPT !.analyses = 1] ELSE kw.row
        set == [added EXCEPT !.rankability_score = r.out.pct.median,
                             !.opportunity_tier = r.out.tiers.median]
        enhanced == analyze_keyword_with_client_profile(r.out, in.profile).enhanced
        fitted == IF in.client_vertical
                  THEN [set EXCEPT !.domain_fit = Num(enhanced.domain_fit.score),
                                   !.intent_fit = Num(enhanced.intent_fit.score),
                                   !.client_forecast = Num(enhanced.client_forecast.score),
                                   !.forecast_tier = enhanced.client_forecast.tier]
                  ELSE set
        stamped == [fitted EXCEPT !.scored_at = 2]
    IN  IF kw.gather = "raise" THEN Pass(kw.row, 0, <<>>, "Exception")
        ELSE IF r.out.k = "raise" THEN Pass(added, 0, <<>>, r.out.exc)
        \* the result for an empty reference group has no key forecast_pct
        ELSE IF r.out.error # "" THEN Pass(added, 0, <<>>, "KeyError")
        ELSE IF in.client_vertical /\ ~in.strings THEN Pass(set, 1, <<>>, "AttributeError")
        ELSE Pass(stamped, 1,
                  <<KeywordResponse(id, stamped, Num(r.out.pct.median),
                                    stamped.domain_fit, stamped.intent_fit,
                                    stamped.client_forecast)>>,
                  "")

\* the loop as it would be without the try statement: the exception leaves
\* the endpoint
LoopBody_unguarded(pass) == [pass |-> pass, propagates |-> pass.exc # ""]

\* try: ... except Exception as e: print(...); continue, lines 249 and
\* 383-385, 574 and 687-689
LoopBody(pass) == [pass |-> pass, propagates |-> FALSE]

---------------------------------------------------------------------------
(* Specification of the calibrator and the tier function *)

FvIdle ==
    /\ fv_pc = "idle"
    /\ mlmodel = NewHandle
    /\ user_metrics = <<>>
    /\ serp_medians = <<>>
    /\ features = NotBuilt
    /\ X = NoFrame
    /\ fv_ret = NoResult

CalIdle ==
    /\ cal_pc = "idle"
    /\ cal_args = NoArgs
    /\ cal_ret = Returned(0)
    /\ pct_in = 0
    /\ tier_out = ""

\* the two request threads of the concurrency model
Threads == {"t1", "t2"}
NoHandles == [n \in 1..Cardinality(Threads) |-> NewHandle]

LdIdle ==
    /\ ld_pc = [t \in Threads |-> "idle"]
    /\ ld_ref = [t \in Threads |-> 0]
    /\ ld_calls = [t \in Threads |-> 0]
    /\ instance = 0
    /\ handles = NoHandles
    /\ created = 0
    /\ artifact_reads = 0
    /\ list_reads = 0

PfIdle ==
    /\ pf_pc = "idle"
    /\ pf_group = <<>>
    /\ pf_profiles = NoProfiles

NoExplainArgs == [tier |-> "", pct |-> 0, dt_gap |-> 0, giant_brand_count |-> 0, query |-> <<>>]
ExIdle ==
    /\ ex_pc = "idle"
    /\ ex_args = NoExplainArgs
    /\ ex_ret = NoExplanation

FitIdle ==
    /\ fit_pc = "idle"
    /\ fit_args = <<>>
    /\ fit_ret = NoFit

FcIdle ==
    /\ fc_pc = "idle"
    /\ fc_in = NoForecastArgs
    /\ fc_out = NoForecast
    /\ fc_prev = ""

AnIdle ==
    /\ an_pc = "idle"
    /\ an_args = <<>>
    /\ an_ret = NoEnhanced

ClIdle ==
    /\ cl_pc = "idle"
    /\ cl_args = NoClientArgs
    /\ cl_ret = NoClientForecast

NoBatch ==
    [endpoint |-> "", force_rescore |-> FALSE, client_vertical |-> FALSE,
     strings |-> TRUE, profile |-> <<>>]
BtIdle ==
    /\ bt_pc = "idle"
    /\ bt_in = NoBatch
    /\ bt_kws = <<>>
    /\ bt_i = 0
    /\ bt_scored = 0
    /\ bt_resp = <<>>
    /\ bt_db = <<>>
    /\ bt_log = <<>>

\* the gateway is not used by the calibrator: its state stays as constructed
InitCal ==
    /\ CalIdle
    /\ FvIdle
    /\ LdIdle
    /\ PfIdle
    /\ ExIdle
    /\ FitIdle
    /\ FcIdle
    /\ AnIdle
    /\ ClIdle
    /\ BtIdle
    /\ disk = [model_file |-> TRUE, feature_file |-> TRUE, feature_names |-> BuilderNames]

Calibrate ==
    /\ cal_pc = "idle"
    /\ \E a \in CalArgs :
        /\ cal_args' = a
        /\ cal_ret' = calibrate_rank_probability(a)
    /\ cal_pc' = "calibrated"
    /\ UNCHANGED <<pct_in, tier_out>>
    /\ UNCHANGED exceptCal

BucketTier ==
    /\ cal_pc = "idle"
    /\ \E p \in PctInputs :
        /\ pct_in' = p
        /\ tier_out' = bucket_keyword_forecast_tier(p)
    /\ cal_pc' = "bucketed"
    /\ UNCHANGED <<cal_args, cal_ret>>
    /\ UNCHANGED exceptCal

NextCal == Calibrate \/ BucketTier

SpecCal == InitCal /\ [][NextCal]_vars

---------------------------------------------------------------------------
(* Specification of the feature-vector builder and the gateway *)

InitFV ==
    /\ CalIdle
    /\ FvIdle
    /\ LdIdle
    /\ PfIdle
    /\ ExIdle
    /\ FitIdle
    /\ FcIdle
    /\ AnIdle
    /\ ClIdle
    /\ BtIdle
    /\ \E names \in FeatureFiles :
        disk = [model_file |-> TRUE, feature_file |-> TRUE, feature_names |-> names]

\* MLModel.build_feature_vector(um, sm), lines 70-141
BuildFeatureVector ==
    /\ fv_pc = "idle"
    /\ \E focus \in 1..NMetrics, ua, sa \in MetricValues, ub, sb \in BaseValues :
        LET um == MappingOf("user", focus, ua, ub)
            sm == MappingOf("serp", focus, sa, sb)
            ld == load_model(mlmodel, disk)
        IN  /\ user_metrics' = um
            /\ serp_medians' = sm
            /\ mlmodel' = ld.h
            /\ features' = IF ld.exc # ""
                           THEN [k |-> "raise", v |-> <<>>, exc |-> ld.exc]
                           ELSE BuildFeatures(um, sm)
    /\ fv_pc' = "built"
    /\ UNCHANGED <<disk, X, fv_ret>>
    /\ UNCHANGED exceptFv

\* MLModel.predict_rankability(um, sm), lines 143-187
PredictRankability ==
    /\ fv_pc = "idle"
    /\ fc_pc = "idle"
    /\ \E focus \in 1..NMetrics, ua, sa \in MetricValues, ub, sb \in ScoredBaseValues,
          proba \in ProbaOutcomes :
        LET um == MappingOf("user", focus, ua, ub)
            sm == MappingOf("serp", focus, sa, sb)
            ld == load_model(mlmodel, disk)
            fv == BuildFeatures(um, sm)
        IN  /\ user_metrics' = um
            /\ serp_medians' = sm
            /\ mlmodel' = ld.h
            /\ IF ld.exc # ""
               THEN /\ features' = NotBuilt
                    /\ X' = NoFrame
                    /\ fv_ret' = [NoResult EXCEPT !.k = "raise", !.exc = ld.exc]
               ELSE IF fv.k = "raise"
               THEN /\ features' = fv
                    /\ X' = NoFrame
                    /\ fv_ret' = [NoResult EXCEPT !.k = "raise", !.exc = fv.exc]
               ELSE /\ features' = fv
                    /\ X' = Frame(FeatureArray(fv.v, ld.h.feature_list), ld.h.feature_list)
                    /\ fv_ret' = IF proba.k = "raise"
                                 THEN [NoResult EXCEPT !.k = "raise", !.exc = "ValueError"]
                                 ELSE [k |-> "ok", v |-> proba.v,
                                       tier |-> classify_opportunity(proba.v), exc |-> ""]
    /\ fv_pc' = "predicted"
    /\ UNCHANGED disk
    /\ UNCHANGED exceptFv

\* get_raw_prob(user_metrics) of forecast_keyword_rank_likelihood,
\* forecast_service.py:415-423, serp_medians being the forecast's argument
GetRawProb ==
    /\ fv_pc = "idle"
    /\ \E focus \in 1..NMetrics, ua, sa \in MetricValues, ub, sb \in ScoredBaseValues,
          proba \in ProbaOutcomes :
        LET um == MappingOf("user", focus, ua, ub)
            sm == MappingOf("serp", focus, sa, sb)
            ld == load_model(mlmodel, disk)
            fv == BuildFeatures(um, sm)
        IN  /\ user_metrics' = um
            /\ serp_medians' = sm
            /\ mlmodel' = ld.h
            /\ IF ld.exc # ""
               THEN /\ features' = NotBuilt
                    /\ X' = NoFrame
                    /\ fv_ret' = [NoResult EXCEPT !.k = "raise", !.exc = ld.exc]
               ELSE IF fv.k = "raise"
               THEN /\ features' = fv
                    /\ X' = NoFrame
                    /\ fv_ret' = [NoResult EXCEPT !.k = "raise", !.exc = fv.exc]
               ELSE /\ features' = fv
                    /\ X' = Frame(FeatureArray(fv.v, ld.h.feature_list), ld.h.feature_list)
                    /\ fv_ret' = IF proba.k = "raise"
                                 THEN [NoResult EXCEPT !.k = "ok"]
                                 ELSE [NoResult EXCEPT !.k = "ok", !.v = proba.v]
    /\ fv_pc' = "raw_prob"
    /\ UNCHANGED disk
    /\ UNCHANGED exceptFv

NextFV == BuildFeatureVector \/ PredictRankability \/ GetRawProb

SpecFV == InitFV /\ [][NextFV]_vars

---------------------------------------------------------------------------
(* Specification of first use by concurrent requests: get_model,            *)
(* ml_model.py:190-194, and load_model, ml_model.py:46-68, one statement a  *)
(* step.  The request handlers are plain functions, which the web framework *)
(* runs on a pool of threads; a thread can be preempted between statements. *)

\* the files are there or not when the process starts
InitLoad ==
    /\ CalIdle
    /\ FvIdle
    /\ LdIdle
    /\ PfIdle
    /\ ExIdle
    /\ FitIdle
    /\ FcIdle
    /\ AnIdle
    /\ ClIdle
    /\ BtIdle
    /\ \E mf, ff \in BOOLEAN :
        disk = [model_file |-> mf, feature_file |-> ff, feature_names |-> BuilderNames]

AtRest(t) == ld_pc[t] \in {"idle", "returned", "raised"}

\* a request starts: ForecastService.__init__ calls get_model, whose
\* line 192 tests hasattr(get_model, "_instance")
GetModelTest(t) ==
    /\ AtRest(t)
    /\ ld_calls[t] < MaxCalls
    /\ ld_calls' = [ld_calls EXCEPT ![t] = @ + 1]
    /\ ld_pc' = [ld_pc EXCEPT ![t] = IF instance = 0 THEN "gm_create" ELSE "gm_return"]
    /\ UNCHANGED <<ld_ref, instance, handles, created, artifact_reads, list_reads>>
    /\ UNCHANGED exceptLd

\* line 193: get_model._instance = MLModel()
GetModelCreate(t) ==
    /\ ld_pc[t] = "gm_create"
    /\ created' = created + 1
    /\ handles' = [handles EXCEPT ![created + 1] = NewHandle]
    /\ instance' = created + 1
    /\ ld_pc' = [ld_pc EXCEPT ![t] = "gm_return"]
    /\ UNCHANGED <<ld_ref, ld_calls, artifact_reads, list_reads>>
    /\ UNCHANGED exceptLd

\* line 194: return get_model._instance
GetModelReturn(t) ==
    /\ ld_pc[t] = "gm_return"
    /\ ld_ref' = [ld_ref EXCEPT ![t] = instance]
    /\ ld_pc' = [ld_pc EXCEPT ![t] = "use"]
    /\ UNCHANGED <<ld_calls, instance, handles, created, artifact_reads, list_reads>>
    /\ UNCHANGED exceptLd

\* the first statement of build_feature_vector and of predict_rankability,
\* lines 79 and 158: if not self.loaded
UseTest(t) ==
    /\ ld_pc[t] = "use"
    /\ ld_pc' = [ld_pc EXCEPT ![t] = IF handles[ld_ref[t]].loaded THEN "returned" ELSE "lm_test"]
    /\ UNCHANGED <<ld_ref, ld_calls, instance, handles, created, artifact_reads, list_reads>>
    /\ UNCHANGED exceptLd

\* load_model, line 48: if self.loaded: return
LoadTest(t) ==
    /\ ld_pc[t] = "lm_test"
    /\ ld_pc' = [ld_pc EXCEPT ![t] = IF handles[ld_ref[t]].loaded THEN "returned" ELSE "lm_model"]
    /\ UNCHANGED <<ld_ref, ld_calls, instance, handles, created, artifact_reads, list_reads>>
    /\ UNCHANGED exceptLd

\* load_model as it would be if it set the flag together with the
\* classifier, before the feature list is read
LoadArtifact_marks(t) ==
    /\ ld_pc[t] = "lm_model"
    /\ IF ~disk.model_file
       THEN /\ ld_pc' = [ld_pc EXCEPT ![t] = "raised"]
            /\ UNCHANGED <<handles, artifact_reads>>
       ELSE /\ handles' = [handles EXCEPT ![ld_ref[t]].model = "classifier",
                                          ![ld_ref[t]].loaded = TRUE]
            /\ artifact_reads' = artifact_reads + 1
            /\ ld_pc' = [ld_pc EXCEPT ![t] = "lm_list"]
    /\ UNCHANGED <<ld_ref, ld_calls, instance, created, list_reads>>
    /\ UNCHANGED exceptLd

\* lines 52-56: the artifact is missing (FileNotFoundError) or is read
LoadArtifact(t) ==
    /\ ld_pc[t] = "lm_model"
    /\ IF ~disk.model_file
       THEN /\ ld_pc' = [ld_pc EXCEPT ![t] = "raised"]
            /\ UNCHANGED <<handles, artifact_reads>>
       ELSE /\ handles' = [handles EXCEPT ![ld_ref[t]].model = "classifier"]
            /\ artifact_reads' = artifact_reads + 1
            /\ ld_pc' = [ld_pc EXCEPT ![t] = "lm_list"]
    /\ UNCHANGED <<ld_ref, ld_calls, instance, created, list_reads>>
    /\ UNCHANGED exceptLd

\* lines 60-65: the feature list is missing (FileNotFoundError) or is read
LoadList(t) ==
    /\ ld_pc[t] = "lm_list"
    /\ IF ~disk.feature_file
       THEN /\ ld_pc' = [ld_pc EXCEPT ![t] = "raised"]
            /\ UNCHANGED <<handles, list_reads>>
       ELSE /\ handles' = [handles EXCEPT ![ld_ref[t]].feature_list = disk.feature_names,
                                          ![ld_ref[t]].has_list = TRUE]
            /\ list_reads' = list_reads + 1
            /\ ld_pc' = [ld_pc EXCEPT ![t] = "lm_mark"]
    /\ UNCHANGED <<ld_ref, ld_calls, instance, created, artifact_reads>>
    /\ UNCHANGED exceptLd

\* line 68: self.loaded = True, and load_model returns
LoadMark(t) ==
    /\ ld_pc[t] = "lm_mark"
    /\ handles' = [handles EXCEPT ![ld_ref[t]].loaded = TRUE]
    /\ ld_pc' = [ld_pc EXCEPT ![t] = "returned"]
    /\ UNCHANGED <<ld_ref, ld_calls, instance, created, artifact_reads, list_reads>>
    /\ UNCHANGED exceptLd

NextLoad ==
    \E t \in Threads :
        \/ GetModelTest(t)
        \/ GetModelCreate(t)
        \/ GetModelReturn(t)
        \/ UseTest(t)
        \/ LoadTest(t)
        \/ LoadArtifact(t)
        \/ LoadList(t)
        \/ LoadMark(t)

SpecLoad == InitLoad /\ [][NextLoad]_vars

---------------------------------------------------------------------------
(* Specification of the content profiles, forecast_service.py:348-400 *)

\* a result that lacks the key of a metric is written with NoValue
NoValue == 0 - 1
Item(name, a, giant) ==
    [giant |-> giant, m |-> IF a = NoValue THEN <<>> ELSE (name :> a)]
ItemKinds(name) == {Item(name, a, FALSE) : a \in NoValue..MaxValue}

\* reference groups of 1..MaxItems results, and groups of twelve results
\* whose first ten alternate between two kinds
ShortGroups(name) == UNION {[1..n -> ItemKinds(name)] : n \in 1..MaxItems}
LongGroups(name) ==
    {[i \in 1..12 |-> IF i > 10 THEN c ELSE IF i % 2 = 1 THEN a ELSE b] :
        a, b, c \in ItemKinds(name)}

InitProf ==
    /\ CalIdle
    /\ FvIdle
    /\ LdIdle
    /\ PfIdle
    /\ ExIdle
    /\ FitIdle
    /\ FcIdle
    /\ AnIdle
    /\ ClIdle
    /\ BtIdle
    /\ disk = [model_file |-> TRUE, feature_file |-> TRUE, feature_names |-> BuilderNames]

\* lines 349 and 385-400, reached with a non-empty reference group
BuildProfiles ==
    /\ pf_pc = "idle"
    /\ \E name \in ContentNames :
        \E group \in ShortGroups(name) \cup LongGroups(name) :
            /\ pf_group' = group
            /\ pf_profiles' = ContentProfiles(Top10(group))
    /\ pf_pc' = "profiled"
    /\ UNCHANGED exceptPf

NextProf == BuildProfiles

SpecProf == InitProf /\ [][NextProf]_vars

---------------------------------------------------------------------------
(* Specification of the tier explanation, forecast_service.py:218-266 *)

Tiers == {"T1_GO_NOW", "T2_STRATEGIC", "T3_LONG_GAME", "T4_NOT_WORTH_IT"}

\* authority gaps, in 1/GapDen points, at and around -20, -10 and 0
GapInputs ==
    {g * GapDen + d : g \in {0 - 20, 0 - 10, 0}, d \in {0 - 5, 0, 5}}
    \cup {(0 - 45) * GapDen, 30 * GapDen}

ExplainArgs ==
    [tier : Tiers \cup {"T9_OTHER"},
     pct : {0, 20 * PctDen},
     dt_gap : GapInputs,
     giant_brand_count : 0..MaxGiant,
     query : Queries]

InitExplain ==
    /\ CalIdle
    /\ FvIdle
    /\ LdIdle
    /\ PfIdle
    /\ ExIdle
    /\ FitIdle
    /\ FcIdle
    /\ AnIdle
    /\ ClIdle
    /\ BtIdle
    /\ disk = [model_file |-> TRUE, feature_file |-> TRUE, feature_names |-> BuilderNames]

Explain ==
    /\ ex_pc = "idle"
    /\ \E a \in ExplainArgs :
        /\ ex_args' = a
        /\ ex_ret' = get_tier_explanation(a.tier, a.pct, a.dt_gap, a.giant_brand_count, a.query)
    /\ ex_pc' = "explained"
    /\ UNCHANGED exceptEx

NextExplain == Explain

SpecExplain == InitExplain /\ [][NextExplain]_vars

---------------------------------------------------------------------------
(* Specification of the fit scorers, forecast_service.py:502-618 *)

FitOwnAuthorities == {NaN} \cup {Num(n) : n \in {0 - 10, 0, 15, 30, 60, 100}}
FitRefAuthorities == {NaN} \cup {Num(n) : n \in {0 - 5, 0, 30}}
FitOwnBacklinks == {NaN} \cup {Num(n) : n \in {0, 500, 997, 998, 1000, 1001, 5000}}
FitRefBacklinks == {NaN} \cup {Num(n) : n \in {0, 1000}}

DomainFitArgs ==
    [client_domain_trust : FitOwnAuthorities,
     client_referring_domains : FitOwnBacklinks,
     serp_median_dt : FitRefAuthorities,
     serp_median_refdoms : FitRefBacklinks]

\* cosine similarities, in 1/1000, from -1 to 1
Similarities == {0 - 1000, 0 - 200, 0, 333, 1000}
Topics == [sim : Similarities, hit : BOOLEAN]
TopicLists == UNION {[1..n -> Topics] : n \in 0..MaxTopics}

IntentFitArgs ==
    [vertical_known : BOOLEAN,
     keyword_hit : BOOLEAN,
     modifier_hit : BOOLEAN,
     given : BOOLEAN,
     topics : TopicLists,
     encode_fails : BOOLEAN]

InitFit ==
    /\ CalIdle
    /\ FvIdle
    /\ LdIdle
    /\ PfIdle
    /\ ExIdle
    /\ FitIdle
    /\ FcIdle
    /\ AnIdle
    /\ ClIdle
    /\ BtIdle
    /\ disk = [model_file |-> TRUE, feature_file |-> TRUE, feature_names |-> BuilderNames]

DomainFit ==
    /\ fit_pc = "idle"
    /\ \E a \in DomainFitArgs :
        /\ fit_args' = a
        /\ fit_ret' = compute_domain_fit(a.client_domain_trust, a.client_referring_domains,
                                         a.serp_median_dt, a.serp_median_refdoms)
    /\ fit_pc' = "domain_fit"
    /\ UNCHANGED exceptFit

\* client_vertical_keywords = None is written with no topics
IntentFit ==
    /\ fit_pc = "idle"
    /\ \E a \in IntentFitArgs :
        /\ a.given \/ a.topics = <<>>
        /\ fit_args' = a
        /\ fit_ret' = compute_intent_fit(a)
    /\ fit_pc' = "intent_fit"
    /\ UNCHANGED exceptFit

NextFit == DomainFit \/ IntentFit

SpecFit == InitFit /\ [][NextFit]_vars

---------------------------------------------------------------------------
(* Specification of the forecast: calls of forecast_keyword_rank_likelihood *)
(* and of predict_rankability, one after the other, on one handle, while    *)
(* files that are missing from the disk may appear                          *)

\* reference groups: none; one result; three results, two of them giants;
\* twelve results whose last two are giants
ForecastGroups ==
    {<<>>,
     <<Item("word_count", 1, FALSE)>>,
     <<Item("word_count", 2, TRUE), Item("word_count", 0, FALSE), Item("word_count", 1, TRUE)>>,
     [i \in 1..12 |-> Item("word_count", 1, i > 10)]}

\* serp_medians with the keys dt and referring_domains, each present or not
SerpMap(dt, ref) ==
    [name \in (IF dt = Absent THEN {} ELSE {"dt"})
              \cup (IF ref = Absent THEN {} ELSE {"referring_domains"}) |->
        IF name = "dt" THEN dt ELSE ref]
ForecastMedians ==
    {SerpMap(dt, ref) : dt \in {Absent, Num(0), Num(30)}, ref \in {Num(0), Num(20)}}
    \cup {SerpMap(Num(30), Absent)}

\* no target domain, or one whose lookups answer a number or None
ForecastTargets ==
    {[given |-> FALSE, dt |-> None, ref |-> None]}
    \cup {[given |-> TRUE, dt |-> a, ref |-> b] : a \in {None, Num(20)}, b \in {None, Num(20)}}
    \cup {[given |-> TRUE, dt |-> a, ref |-> Num(20)] : a \in {Num(10), Num(30), Num(35)}}

\* predict_proba returns 0.6 or 0.571 for all three profiles, or raises for
\* all of them, for the first one, or for the second one
ForecastProbas ==
    {Triple(Returned(p), Returned(p), Returned(p)) : p \in {571, 600}}
    \cup {Triple(Raised("Exception"), Raised("Exception"), Raised("Exception")),
          Triple(Raised("Exception"), Returned(600), Returned(600)),
          Triple(Returned(600), Raised("Exception"), Returned(600))}

ForecastArgs ==
    {[keyword |-> q, enriched_results |-> g, serp_medians |-> sm,
      target_domain_url |-> t.given, dt_lookup |-> t.dt, ref_lookup |-> t.ref,
      proba |-> p] :
        q \in {MkQuery(2, FALSE), MkQuery(4, FALSE)}, g \in ForecastGroups,
        sm \in ForecastMedians, t \in ForecastTargets, p \in ForecastProbas}

InitFC ==
    /\ CalIdle
    /\ FvIdle
    /\ LdIdle
    /\ PfIdle
    /\ ExIdle
    /\ FitIdle
    /\ FcIdle
    /\ AnIdle
    /\ ClIdle
    /\ BtIdle
    /\ \E mf, ff \in BOOLEAN :
        disk = [model_file |-> mf, feature_file |-> ff, feature_names |-> BuilderNames]

NoCall == fc_pc = "idle" /\ fv_pc = "idle"

\* forecast_keyword_rank_likelihood(keyword, enriched_results, serp_medians,
\* target_domain_url), lines 329-498
Forecast ==
    /\ NoCall
    /\ \E f \in ForecastArgs :
        \E r \in {forecast_keyword_rank_likelihood(f, mlmodel, disk)} :
            /\ fc_in' = f
            /\ fc_out' = r.out
            /\ mlmodel' = r.h
    /\ fc_pc' = "forecast"
    /\ UNCHANGED <<fc_prev, disk, fv_pc, user_metrics, serp_medians, features, X, fv_ret>>
    /\ UNCHANGED anVars
    /\ UNCHANGED exceptFc

\* what compute_intent_fit finds for the keyword and the client profile of
\* the list: a known vertical with a keyword of its patterns in the keyword,
\* an unknown vertical with one client topic of similarity 1.0, a known
\* vertical with keyword, modifier and a topic of similarity 0.333
AnalyzeProfiles ==
    {[vertical_known |-> TRUE, keyword_hit |-> TRUE, modifier_hit |-> FALSE,
      given |-> FALSE, topics |-> <<>>, encode_fails |-> FALSE],
     [vertical_known |-> FALSE, keyword_hit |-> FALSE, modifier_hit |-> FALSE,
      given |-> TRUE, topics |-> <<[sim |-> 1000, hit |-> TRUE]>>, encode_fails |-> FALSE],
     [vertical_known |-> TRUE, keyword_hit |-> TRUE, modifier_hit |-> TRUE,
      given |-> TRUE, topics |-> <<[sim |-> 333, hit |-> FALSE]>>, encode_fails |-> FALSE]}

\* analyze_keyword_with_client_profile(keyword, forecast_result, ...) on the
\* result the forecast has just returned, lines 696-750
Analyze ==
    /\ fc_pc = "forecast"
    /\ fc_out.k = "ok"
    /\ an_pc = "idle"
    /\ \E p \in AnalyzeProfiles :
        \E r \in {analyze_keyword_with_client_profile(fc_out, p)} :
            /\ an_args' = p
            /\ an_ret' = r
            /\ fc_out' = r.forecast_result
    /\ an_pc' = "analyzed"
    /\ UNCHANGED <<fc_pc, fc_in, fc_prev, fvVars>>
    /\ UNCHANGED exceptFc

\* the caller has the outcome of its call; the handle and the disk stay
Rest ==
    /\ ~NoCall
    /\ fc_prev' = IF fc_pc = "forecast" THEN fc_out.exc ELSE fv_ret.exc
    /\ fc_pc' = "idle"
    /\ fc_in' = NoForecastArgs
    /\ fc_out' = NoForecast
    /\ fv_pc' = "idle"
    /\ user_metrics' = <<>>
    /\ serp_medians' = <<>>
    /\ features' = NotBuilt
    /\ X' = NoFrame
    /\ fv_ret' = NoResult
    /\ an_pc' = "idle"
    /\ an_args' = <<>>
    /\ an_ret' = NoEnhanced
    /\ UNCHANGED <<mlmodel, disk>>
    /\ UNCHANGED exceptFc

\* the operator puts a missing file in place
FilesAppear ==
    /\ NoCall
    /\ \E file \in {"model_file", "feature_file"} :
        /\ ~disk[file]
        /\ disk' = [disk EXCEPT ![file] = TRUE]
    /\ UNCHANGED <<fcVars, anVars, fv_pc, mlmodel, user_metrics, serp_medians, features, X, fv_ret>>
    /\ UNCHANGED exceptFc

NextFC == Forecast \/ Analyze \/ PredictRankability \/ Rest \/ FilesAppear

SpecFC == InitFC /\ [][NextFC]_vars

---------------------------------------------------------------------------
(* Specification of compute_client_forecast *)

\* win_score in 1/RawDen, the two fit scores in tenths, difficulty and
\* volume a number or None
ClientWinScores == {0, 290, 500, 999, 1000}
ClientDomainFits == {0, 299, 500, 1000}
ClientIntentFits == {0 - 100, 0, 500, 600, 1000}
ClientDifficulties == {None, Num(0), Num(50), Num(100)}
ClientVolumes == {None} \cup {Num(v) : v \in {0, 1000, 1001, 1920, 10000, 20000}}

ClientArgs ==
    [win_score : ClientWinScores,
     domain_fit : ClientDomainFits,
     intent_fit : ClientIntentFits,
     keyword_difficulty : ClientDifficulties,
     search_volume : ClientVolumes]

InitClient ==
    /\ CalIdle
    /\ FvIdle
    /\ LdIdle
    /\ PfIdle
    /\ ExIdle
    /\ FitIdle
    /\ FcIdle
    /\ AnIdle
    /\ ClIdle
    /\ BtIdle
    /\ disk = [model_file |-> TRUE, feature_file |-> TRUE, feature_names |-> BuilderNames]

\* compute_client_forecast(win_score, domain_fit, intent_fit,
\* keyword_difficulty, search_volume), lines 620-694
ClientForecast ==
    /\ cl_pc = "idle"
    /\ \E a \in ClientArgs :
        /\ cl_args' = a
        /\ cl_ret' = compute_client_forecast(a)
    /\ cl_pc' = "client_forecast"
    /\ UNCHANGED exceptCl

\* the caller has the result
ClientRest ==
    /\ cl_pc = "client_forecast"
    /\ cl_pc' = "idle"
    /\ cl_args' = NoClientArgs
    /\ cl_ret' = NoClientForecast
    /\ UNCHANGED exceptCl

NextClient == ClientForecast \/ ClientRest

SpecClient == InitClient /\ [][NextClient]_vars

---------------------------------------------------------------------------
(* Specification of the batch endpoints: calls of score_keywords and of *)
(* score_selected_keywords, one after the other, on the process's handle *)

MaxBatch == 2

\* a row scored by an earlier call
ScoredRow ==
    [rankability_score |-> 7 * PctDen, opportunity_tier |-> "T3_LONG_GAME",
     domain_fit |-> Num(500), intent_fit |-> Num(250), client_forecast |-> Num(300),
     forecast_tier |-> "LONG_TERM", scored_at |-> 1, analyses |-> 0]

\* the forecast call of a keyword of a list with a target domain
BatchForecast(group, proba) ==
    [keyword |-> MkQuery(4, FALSE), enriched_results |-> group,
     serp_medians |-> SerpMap(Num(30), Num(20)), target_domain_url |-> TRUE,
     dt_lookup |-> Num(20), ref_lookup |-> Num(20), proba |-> proba]

ThreeResults ==
    <<Item("word_count", 2, TRUE), Item("word_count", 0, FALSE), Item("word_count", 1, TRUE)>>
ProbaReturns == Triple(Returned(600), Returned(600), Returned(600))
ProbaRaises == Triple(Raised("Exception"), Raised("Exception"), Raised("Exception"))

\* what a keyword meets: a cached or a fetched reference group, a fetch that
\* raises, a cached analysis with no results, a classifier that raises
BatchMeets ==
    {[gather |-> "cached", f |-> BatchForecast(ThreeResults, ProbaReturns)],
     [gather |-> "fetched", f |-> BatchForecast(ThreeResults, ProbaReturns)],
     [gather |-> "raise", f |-> BatchForecast(<<>>, ProbaReturns)],
     [gather |-> "cached", f |-> BatchForecast(<<>>, ProbaReturns)],
     [gather |-> "cached", f |-> BatchForecast(ThreeResults, ProbaRaises)]}

BatchKeywords ==
    {[row |-> row, gather |-> m.gather, f |-> m.f] : row \in {NewRow, ScoredRow}, m \in BatchMeets}

\* the list has no client vertical, or one with topics that are strings, or
\* one with a topic that is not a string
BatchProfiles ==
    {[client_vertical |-> FALSE, strings |-> TRUE], [client_vertical |-> TRUE, strings |-> TRUE],
     [client_vertical |-> TRUE, strings |-> FALSE]}

BatchInputs ==
    {[endpoint |-> e, force_rescore |-> fr, client_vertical |-> c.client_vertical,
      strings |-> c.strings,
      profile |-> [vertical_known |-> TRUE, keyword_hit |-> TRUE, modifier_hit |-> FALSE,
                   given |-> c.client_vertical, encode_fails |-> ~c.strings,
                   topics |-> IF c.client_vertical THEN <<[sim |-> 1000, hit |-> TRUE]>>
                              ELSE <<>>]] :
        e \in {"score_keywords", "score_selected_keywords"}, fr \in BOOLEAN,
        c \in BatchProfiles}

InitBatch ==
    /\ CalIdle
    /\ FvIdle
    /\ LdIdle
    /\ PfIdle
    /\ ExIdle
    /\ FitIdle
    /\ FcIdle
    /\ AnIdle
    /\ ClIdle
    /\ BtIdle
    /\ \E mf \in BOOLEAN :
        disk = [model_file |-> mf, feature_file |-> TRUE, feature_names |-> BuilderNames]

BatchFrame == UNCHANGED <<disk, fv_pc, user_metrics, serp_medians, features, X, fv_ret>>

\* lines 196-206 and 555-572: the list is found and the loop is entered on
\* its keywords (score_keywords) or on the requested ones
BatchStart ==
    /\ bt_pc = "idle"
    /\ \E in \in BatchInputs, n \in 0..MaxBatch :
        \E kws \in [1..n -> BatchKeywords] :
            /\ bt_in' = in
            /\ bt_kws' = kws
            /\ bt_db' = [i \in 1..n |-> kws[i].row]
            /\ bt_log' = [i \in 1..n |-> ""]
    /\ bt_pc' = "loop"
    /\ bt_i' = 0
    /\ bt_scored' = 0
    /\ bt_resp' = <<>>
    /\ UNCHANGED mlmodel
    /\ BatchFrame
    /\ UNCHANGED exceptBt

\* lines 196-198 and 555-557: HTTPException(404) when there is no such list
BatchNotFound ==
    /\ bt_pc = "idle"
    /\ \E e \in {"score_keywords", "score_selected_keywords"} :
        bt_in' = [NoBatch EXCEPT !.endpoint = e]
    /\ bt_pc' = "not_found"
    /\ UNCHANGED <<bt_kws, bt_i, bt_scored, bt_resp, bt_db, bt_log, mlmodel>>
    /\ BatchFrame
    /\ UNCHANGED exceptBt

\* one pass of the for loop, lines 207-385 and 573-689
BatchKeyword ==
    /\ bt_pc = "loop"
    /\ bt_i < Len(bt_kws)
    /\ LET id == bt_i + 1
           kw == [bt_kws[id] EXCEPT !.row = bt_db[id]]
       IN  IF Skips(bt_in, kw.row)
           THEN /\ bt_resp' = Append(bt_resp, StoredResponse(id, kw.row))
                /\ bt_i' = id
                /\ UNCHANGED <<bt_pc, bt_scored, bt_db, bt_log, mlmodel>>
           ELSE \E r \in {forecast_keyword_rank_likelihood(kw.f, mlmodel, disk)} :
                  \E o \in {LoopBody(try_body(id, kw, bt_in, r))} :
                    /\ mlmodel' = IF kw.gather = "raise" THEN mlmodel ELSE r.h
                    /\ IF o.propagates
                       THEN \* the session is closed without a commit
                            /\ bt_pc' = "aborted"
                            /\ bt_db' = [i \in 1..Len(bt_kws) |-> bt_kws[i].row]
                            /\ bt_log' = [bt_log EXCEPT ![id] = o.pass.exc]
                            /\ UNCHANGED <<bt_i, bt_scored, bt_resp>>
                       ELSE /\ bt_db' = [bt_db EXCEPT ![id] = o.pass.row]
                            /\ bt_scored' = bt_scored + o.pass.counted
                            /\ bt_resp' = bt_resp \o o.pass.response
                            /\ bt_log' = [bt_log EXCEPT ![id] = o.pass.exc]
                            /\ bt_i' = id
                            /\ UNCHANGED bt_pc
    /\ UNCHANGED <<bt_in, bt_kws>>
    /\ BatchFrame
    /\ UNCHANGED exceptBt

\* lines 387-393 and 691-697: db.commit() and the response
BatchReturn ==
    /\ bt_pc = "loop"
    /\ bt_i = Len(bt_kws)
    /\ bt_pc' = "returned"
    /\ UNCHANGED <<bt_in, bt_kws, bt_i, bt_scored, bt_resp, bt_db, bt_log, mlmodel>>
    /\ BatchFrame
    /\ UNCHANGED exceptBt

\* the client has the response; the handle stays as it is
BatchRest ==
    /\ bt_pc \in {"returned", "aborted", "not_found"}
    /\ bt_pc' = "idle"
    /\ bt_in' = NoBatch
    /\ bt_kws' = <<>>
    /\ bt_i' = 0
    /\ bt_scored' = 0
    /\ bt_resp' = <<>>
    /\ bt_db' = <<>>
    /\ bt_log' = <<>>
    /\ UNCHANGED mlmodel
    /\ BatchFrame
    /\ UNCHANGED exceptBt

NextBatch == BatchStart \/ BatchNotFound \/ BatchKeyword \/ BatchReturn \/ BatchRest

SpecBatch == InitBatch /\ [][NextBatch]_vars

---------------------------------------------------------------------------
(* Claims about the calibrator and the tier function (SpecCal) *)

Calibrated == cal_pc = "calibrated"
CalReturned == Calibrated /\ cal_ret.k = "ok"

\* the four factors are neutral, stated on the arguments: own authority >=
\* reference, backlink ratio >= 1, fewer than 2 giant brands, 4 or more tokens
AllNeutral(a) ==
    /\ IsNum(a.median_dt_serp) /\ IsNum(a.my_dt)
    /\ a.my_dt.v >= a.median_dt_serp.v
    /\ IsNum(a.median_ref_serp) /\ IsNum(a.my_ref)
    /\ a.median_ref_serp.v > 0
    /\ a.my_ref.v >= a.median_ref_serp.v
    /\ a.giant_brand_count < 2
    /\ TokenCount(a.query) >= 4

\* C1: for a numeric raw_prob (also outside [0,1]) every value that
\* calibrate_rank_probability returns lies in [0.01, 0.50]; with the four
\* factors neutral, raw_prob 1.0 and raw_prob 0.6 give exactly 0.50, which
\* is 50.0 percent and tier GO_NOW, and raw_prob 0.001 gives exactly 0.01.
C1_CalibratedRange ==
    (CalReturned /\ IsNum(cal_args.raw_prob)) =>
        /\ cal_ret.v >= CalOfPercent(1)
        /\ cal_ret.v <= CalOfPercent(50)
        /\ (AllNeutral(cal_args) /\ cal_args.raw_prob.v \in {RawDen, 6 * (RawDen \div 10)}) =>
              /\ cal_ret.v = CalOfPercent(50)
              /\ RoundPct(cal_ret.v) = 50 * PctDen
              /\ bucket_keyword_forecast_tier(RoundPct(cal_ret.v)) = "T1_GO_NOW"
        /\ (cal_args.raw_prob.v = 1) => cal_ret.v = CalOfPercent(1)

\* C1 witness: a raw probability above 1 with neutral factors came back as 0.50
C1_Witness ==
    /\ CalReturned
    /\ AllNeutral(cal_args)
    /\ IsNum(cal_args.raw_prob) /\ cal_args.raw_prob.v > RawDen
    /\ cal_ret.v = CalOfPercent(50)

\* the factor tables of the claim, in percent, on the gap, on the two
\* backlink counts, on the giant count and on the token count
ClaimAuth(gap) ==
    IF gap >= 0 THEN 100 ELSE IF gap > -10 THEN 85 ELSE IF gap > -20 THEN 70 ELSE 50
ClaimLink(own, ref) ==
    IF ref <= 0 THEN 100
    ELSE IF own >= ref THEN 100
    ELSE IF own * 10 >= ref * 5 THEN 90
    ELSE IF own * 10 >= ref * 2 THEN 75
    ELSE IF own * 100 >= ref * 5 THEN 40
    ELSE 20
ClaimBrand(n) == IF n >= 4 THEN 40 ELSE IF n >= 2 THEN 70 ELSE 100
ClaimHead(n) == IF n <= 2 THEN 50 ELSE IF n <= 3 THEN 80 ELSE 100

AllNumeric(a) ==
    /\ IsNum(a.raw_prob)
    /\ IsNum(a.median_dt_serp) /\ IsNum(a.my_dt)
    /\ IsNum(a.median_ref_serp) /\ IsNum(a.my_ref)

\* a factor in percent as a number of twentieths
Twentieths(f) == f \div 5

\* the product raw_prob x f_auth x f_link x f_brand x f_head in 1/CalDen
ClaimProduct(a) ==
    a.raw_prob.v
    * Twentieths(ClaimAuth(a.my_dt.v - a.median_dt_serp.v))
    * Twentieths(ClaimLink(a.my_ref.v, a.median_ref_serp.v))
    * Twentieths(ClaimBrand(a.giant_brand_count))
    * Twentieths(ClaimHead(TokenCount(a.query)))

\* scenario B: authority 30 below reference, backlink ratio 0.1, 3 giant
\* brands, a 1-word query, raw_prob 0.5
ScenarioB(a) ==
    /\ AllNumeric(a)
    /\ a.my_dt.v - a.median_dt_serp.v = -30
    /\ a.median_ref_serp.v > 0 /\ a.my_ref.v * 10 = a.median_ref_serp.v
    /\ a.giant_brand_count = 3
    /\ TokenCount(a.query) = 1
    /\ a.raw_prob.v * 2 = RawDen

\* C2: on numeric inputs calibrate_rank_probability returns
\* clamp(raw_prob x f_auth x f_link x f_brand x f_head, 0.01, 0.50) with the
\* four factor tables of the claim; scenario B gives 0.035, that is 3.5
\* percent, tier NOT_WORTH_IT.
C2_CalibrationFormula ==
    (Calibrated /\ AllNumeric(cal_args)) =>
        /\ cal_ret.k = "ok"
        /\ LET prod == ClaimProduct(cal_args)
           IN  cal_ret.v = (IF prod > CalOfPercent(50) THEN CalOfPercent(50)
                            ELSE IF prod < CalOfPercent(1) THEN CalOfPercent(1)
                            ELSE prod)
        /\ ScenarioB(cal_args) =>
              /\ cal_ret.v = 35 * (CalDen \div 1000)
              /\ RoundPct(cal_ret.v) * 10 = 35 * PctDen
              /\ bucket_keyword_forecast_tier(RoundPct(cal_ret.v)) = "T4_NOT_WORTH_IT"

\* C2 witness: scenario B was calibrated, to a value strictly inside the clamp
C2_Witness ==
    /\ CalReturned
    /\ ScenarioB(cal_args)
    /\ cal_ret.v > CalOfPercent(1) /\ cal_ret.v < CalOfPercent(50)

\* C3: with raw_prob None or NaN calibrate_rank_probability returns exactly
\* 0.0, whatever the other arguments are, and does not raise.
C3_MissingRawProbIsZero ==
    (Calibrated /\ ~IsNum(cal_args.raw_prob)) => cal_ret = Returned(0)

\* C3 witness: raw_prob NaN came back 0.0 although the own authority and
\* the own backlink count are None beside numeric references
C3_Witness ==
    /\ Calibrated
    /\ IsNan(cal_args.raw_prob)
    /\ IsNum(cal_args.median_dt_serp) /\ IsNone(cal_args.my_dt)
    /\ IsNum(cal_args.median_ref_serp) /\ cal_args.median_ref_serp.v > 0
    /\ IsNone(cal_args.my_ref)
    /\ cal_ret = Returned(0)

\* the factors C4 expects when a value is missing, in percent
C4Auth(a) ==
    IF ~IsNum(a.median_dt_serp) \/ ~IsNum(a.my_dt) THEN 100
    ELSE ClaimAuth(a.my_dt.v - a.median_dt_serp.v)
C4Link(a) ==
    IF ~IsNum(a.median_ref_serp) \/ ~IsNum(a.my_ref) THEN 100
    ELSE ClaimLink(a.my_ref.v, a.median_ref_serp.v)
C4Product(a) ==
    a.raw_prob.v
    * Twentieths(C4Auth(a))
    * Twentieths(C4Link(a))
    * Twentieths(ClaimBrand(a.giant_brand_count))
    * Twentieths(ClaimHead(TokenCount(a.query)))

\* C4: a None or NaN authority or backlink value never raises and only
\* disables its own factor (1.00); the call returns the clamped product of
\* the remaining factors.
C4_MissingValueDisablesFactor ==
    (Calibrated /\ IsNum(cal_args.raw_prob)) =>
        /\ cal_ret.k = "ok"
        /\ LET prod == C4Product(cal_args)
           IN  cal_ret.v = (IF prod > CalOfPercent(50) THEN CalOfPercent(50)
                            ELSE IF prod < CalOfPercent(1) THEN CalOfPercent(1)
                            ELSE prod)

\* C4, the part the code satisfies: when the call returns, a None or NaN
\* value has disabled its own factor only
C4_DisablesFactorWhenReturning ==
    (CalReturned /\ IsNum(cal_args.raw_prob)) =>
        LET prod == C4Product(cal_args)
        IN  cal_ret.v = (IF prod > CalOfPercent(50) THEN CalOfPercent(50)
                         ELSE IF prod < CalOfPercent(1) THEN CalOfPercent(1)
                         ELSE prod)

\* C4: the call raised on a None own value beside a numeric reference
C4_RaisedOnNoneOwnValue ==
    /\ Calibrated
    /\ cal_ret.k = "raise"
    /\ IsNum(cal_args.raw_prob)
    /\ IsNone(cal_args.my_dt) \/ IsNone(cal_args.my_ref)

\* C5: calibration is monotonic in the own authority: with the other
\* arguments fixed, a call with a lower own authority returns a value less
\* than or equal to the value this call returned.
C5_MonotonicInOwnAuthority ==
    (CalReturned /\ IsNum(cal_args.my_dt)) =>
        \A a1 \in OwnAuthorities :
            (IsNum(a1) /\ a1.v <= cal_args.my_dt.v) =>
                LET lower == calibrate_rank_probability([cal_args EXCEPT !.my_dt = a1])
                IN  lower.k = "ok" /\ lower.v <= cal_ret.v

\* C5 witness: a call whose value is strictly above the value of the same
\* call with a lower own authority
C5_Witness ==
    /\ CalReturned
    /\ IsNum(cal_args.my_dt) /\ IsNum(cal_args.median_dt_serp)
    /\ cal_args.my_dt.v < cal_args.median_dt_serp.v
    /\ \E a1 \in OwnAuthorities :
        /\ IsNum(a1) /\ a1.v < cal_args.my_dt.v
        /\ calibrate_rank_probability([cal_args EXCEPT !.my_dt = a1]).v < cal_ret.v

Bucketed == cal_pc = "bucketed"

\* C6: the tier function is closed at each threshold: pct >= 20 is GO_NOW,
\* 10 <= pct < 20 is STRATEGIC, 4 <= pct < 10 is LONG_GAME, pct < 4 is
\* NOT_WORTH_IT.
C6_TierClosedAtThreshold ==
    Bucketed =>
        /\ (tier_out = "T1_GO_NOW") <=> (pct_in >= 20 * PctDen)
        /\ (tier_out = "T2_STRATEGIC") <=> (pct_in >= 10 * PctDen /\ pct_in < 20 * PctDen)
        /\ (tier_out = "T3_LONG_GAME") <=> (pct_in >= 4 * PctDen /\ pct_in < 10 * PctDen)
        /\ (tier_out = "T4_NOT_WORTH_IT") <=> (pct_in < 4 * PctDen)

\* C6 witness: 19.9999 percent was bucketed STRATEGIC
C6_Witness ==
    /\ Bucketed
    /\ pct_in = 20 * PctDen - 1
    /\ tier_out = "T2_STRATEGIC"

---------------------------------------------------------------------------
(* Claims about the feature-vector builder and the gateway (SpecFV) *)

Built == fv_pc = "built"
BuiltOk == Built /\ features.k = "ok"

\* the value the returned vector holds under a name
Feature(name) ==
    features.v[CHOOSE j \in 1..Len(features.v) : features.v[j][1] = name][2]

\* a feature value equals the fraction n/d (d # 0)
IsFraction(x, n, d) == x.k = "num" /\ x.n * d = n * x.d
IsOne(x) == IsFraction(x, 1, 1)
IsZero(x) == IsFraction(x, 0, 1)

RatioMetrics == {i \in 1..NMetrics : Metrics[i].ratio # ""}

HasUser(i) == Metrics[i].user \in DOMAIN user_metrics
HasSerp(i) == Metrics[i].serp \in DOMAIN serp_medians
UserVal(i) == user_metrics[Metrics[i].user]
SerpVal(i) == serp_medians[Metrics[i].serp]

\* C7: every ratio feature equals candidate / reference when both are
\* present numbers and the reference is non-zero, and equals exactly 1.0
\* whenever the reference is zero, missing from the reference medians or
\* NaN, or the candidate is missing from the candidate metrics or NaN.
C7_RatioFeatures ==
    BuiltOk =>
        \A i \in RatioMetrics :
            LET ratio == Feature(Metrics[i].ratio)
                ref_unusable ==
                    \/ ~HasSerp(i)
                    \/ IsNan(SerpVal(i))
                    \/ IsNum(SerpVal(i)) /\ SerpVal(i).v = 0
                cand_unusable == ~HasUser(i) \/ IsNan(UserVal(i))
            IN  /\ (ref_unusable \/ cand_unusable) => IsOne(ratio)
                /\ ( /\ HasSerp(i) /\ IsNum(SerpVal(i)) /\ SerpVal(i).v # 0
                     /\ HasUser(i) /\ IsNum(UserVal(i)) )
                   => IsFraction(ratio, UserVal(i).v, SerpVal(i).v)

\* C7: a vector was returned whose dt_ratio is 0.0 because domain_trust is
\* missing from the candidate metrics beside a positive reference
C7_MissingCandidateRatioIsZero ==
    /\ BuiltOk
    /\ ~HasUser(1)
    /\ HasSerp(1) /\ IsNum(SerpVal(1)) /\ SerpVal(1).v > 0
    /\ IsZero(Feature("dt_ratio"))

\* the reference of metric i is present and is <= 0 or NaN
RefNonPositive(i) ==
    HasSerp(i) /\ (IsNan(SerpVal(i)) \/ (IsNum(SerpVal(i)) /\ SerpVal(i).v <= 0))
RefZeroOrNan(i) ==
    HasSerp(i) /\ (IsNan(SerpVal(i)) \/ (IsNum(SerpVal(i)) /\ SerpVal(i).v = 0))
RefNegative(i) == HasSerp(i) /\ IsNum(SerpVal(i)) /\ SerpVal(i).v < 0

NoNanFeature == \A j \in 1..Len(features.v) : features.v[j][2].k = "num"

\* C8 as stated: for every reference that is <= 0 or NaN and every
\* candidate, the ratio feature is 1.0 and the gap feature is 0.0, and no
\* feature of a vector built on such references is NaN or infinite.
C8_NonPositiveReferenceDefaults ==
    BuiltOk =>
        /\ \A i \in 1..NMetrics :
              RefNonPositive(i) =>
                  /\ IsZero(Feature(Metrics[i].gap))
                  /\ (i \in RatioMetrics) => IsOne(Feature(Metrics[i].ratio))
        /\ (\A i \in 1..NMetrics : RefNonPositive(i)) => NoNanFeature

\* the candidate of metric i as the builder reads it: 0 when missing
EffectiveUser(i) == IF HasUser(i) THEN UserVal(i) ELSE Num(0)

\* C8 as amended: for every reference that is zero or NaN the ratio
\* feature is 1.0 and the gap feature is 0.0; for a negative reference the
\* gap feature is 0.0 and the ratio feature is candidate / reference (1.0
\* when the candidate is None or NaN); no feature of a vector built on
\* references <= 0 or NaN is NaN or infinite.
C8_ZeroOrNanReferenceDefaults ==
    BuiltOk =>
        /\ \A i \in 1..NMetrics :
              /\ RefNonPositive(i) => IsZero(Feature(Metrics[i].gap))
              /\ (RefZeroOrNan(i) /\ i \in RatioMetrics) =>
                    IsOne(Feature(Metrics[i].ratio))
              /\ (RefNegative(i) /\ i \in RatioMetrics) =>
                    IF IsNum(EffectiveUser(i))
                    THEN IsFraction(Feature(Metrics[i].ratio),
                                    EffectiveUser(i).v, SerpVal(i).v)
                    ELSE IsOne(Feature(Metrics[i].ratio))
        /\ (\A i \in 1..NMetrics : RefNonPositive(i)) => NoNanFeature

\* C8 witness: a vector built on a negative reference and a positive
\* candidate of a ratio metric: gap 0.0, ratio candidate / reference, not 1.0
C8_Witness ==
    /\ BuiltOk
    /\ \E i \in RatioMetrics :
        /\ RefNegative(i)
        /\ HasUser(i) /\ IsNum(UserVal(i)) /\ UserVal(i).v > 0
        /\ IsZero(Feature(Metrics[i].gap))
        /\ IsFraction(Feature(Metrics[i].ratio), UserVal(i).v, SerpVal(i).v)
        /\ ~IsOne(Feature(Metrics[i].ratio))

\* the 15 feature names of the claim
ClaimedNames ==
    <<"dt_gap", "dt_ratio", "refdoms_gap", "refdoms_ratio", "wc_gap", "wc_ratio",
      "sent_count_gap", "awps_gap", "flesch_gap", "semantic_gap", "semantic_ratio",
      "internal_links_gap", "schema_total_gap", "schema_unique_gap",
      "rich_features_gap">>

\* C9: build_feature_vector never raises on malformed metric input: with
\* any metric absent, None, NaN, zero or negative it returns a vector of
\* the 15 named features.
C9_NeverRaises ==
    Built =>
        /\ features.k = "ok"
        /\ Len(features.v) = Len(ClaimedNames)
        /\ \A j \in 1..Len(ClaimedNames) : features.v[j][1] = ClaimedNames[j]

\* C9: the call raised TypeError on a reference that is present and None
C9_RaisedOnNoneReference ==
    /\ Built
    /\ features.k = "raise" /\ features.exc = "TypeError"
    /\ \E i \in 1..NMetrics : HasSerp(i) /\ IsNone(SerpVal(i))

\* C9, the part the code satisfies: a vector that is returned holds the 15
\* named features
C9_ReturnedVectorHasTheNames ==
    BuiltOk =>
        /\ Len(features.v) = Len(ClaimedNames)
        /\ \A j \in 1..Len(ClaimedNames) : features.v[j][1] = ClaimedNames[j]

Scored == fv_pc \in {"predicted", "raw_prob"}

\* C10: on both scoring paths the row handed to the classifier has one
\* entry per name of the loaded feature list, in the loaded order: entry i
\* is the built vector's value for name i, or 0.0 when the vector has no
\* such name.
C10_RowFollowsFeatureList ==
    (Scored /\ X.given) =>
        /\ mlmodel.loaded
        /\ X.columns = mlmodel.feature_list
        /\ DOMAIN X.row = 1..Len(mlmodel.feature_list)
        /\ \A i \in 1..Len(mlmodel.feature_list) :
              LET at == {j \in 1..Len(features.v) :
                            features.v[j][1] = mlmodel.feature_list[i]}
              IN  IF at = {} THEN X.row[i] = FZero
                  ELSE \E j \in at : X.row[i] = features.v[j][2]

\* C10 witness: a classifier row built for a feature list that is not in
\* the builder's order and names a feature the builder does not produce;
\* the row holds 0.0 there and differs from the builder's first entries
C10_Witness ==
    /\ fv_pc = "raw_prob"
    /\ X.given
    /\ X.columns = <<"wc_ratio", "page_speed", "dt_gap">>
    /\ X.row[2] = FZero
    /\ X.row[1] = Feature("wc_ratio") /\ X.row[1] # features.v[1][2]
    /\ X.row[3] = Feature("dt_gap") /\ X.row[3] # features.v[3][2]

\* C10 witness on the other path is the same row after predict_rankability
C10_PredictPathReached ==
    /\ fv_pc = "predicted"
    /\ X.given
    /\ X.columns = Reverse(BuilderNames)
    /\ X.row[1] = Feature("rich_features_gap")


NameSet(names) == {names[i] : i \in 1..Len(names)}

\* C14: load_model validates the loaded feature names against the names
\* the builder produces: a handle is never marked loaded with a name the
\* builder does not produce, and no row handed to the classifier has a
\* column of such a name
C14_UnknownNameRejected ==
    /\ mlmodel.loaded => NameSet(mlmodel.feature_list) \subseteq NameSet(BuilderNames)
    /\ X.given => NameSet(X.columns) \subseteq NameSet(BuilderNames)

\* predict_rankability returned a score computed from a row whose column
\* "page_speed", unknown to the builder, was filled with 0.0
C14_ScoredWithUnknownName ==
    /\ fv_pc = "predicted"
    /\ fv_ret.k = "ok"
    /\ mlmodel.loaded
    /\ \E i \in 1..Len(X.columns) :
        /\ X.columns[i] = "page_speed"
        /\ X.columns[i] \notin NameSet(BuilderNames)
        /\ X.row[i] = FZero

---------------------------------------------------------------------------
(* Claims about first use by concurrent requests (SpecLoad) *)

FilesPresent == disk.model_file /\ disk.feature_file

\* C11: with both files on disk, whatever the interleaving of the requests'
\* first-use calls, the process has a single handle and has read the
\* artifact and the feature list at most once each
C11_SingleHandleLoadedOnce ==
    FilesPresent =>
        /\ created <= 1
        /\ artifact_reads <= 1
        /\ list_reads <= 1

\* two requests that both found the singleton's handle not loaded have both
\* read the artifact into it
C11_OneHandleReadTwice ==
    /\ FilesPresent
    /\ created = 1
    /\ artifact_reads = 2
    /\ \A t \in Threads : ld_calls[t] = 1

\* the classifier and the feature list of a handle are there
Present(h) == h.model = "classifier" /\ h.has_list

\* C30: in every state of every handle, after a load that stopped half-way
\* and during concurrent loads as well, the loaded flag implies that the
\* classifier and the feature list are present; a call that has passed the
\* load check works on a handle that has both.
C30_LoadedImpliesPresent ==
    /\ \A n \in 1..created : handles[n].loaded => Present(handles[n])
    /\ \A t \in Threads : ld_pc[t] = "returned" => Present(handles[ld_ref[t]])

\* a request has passed the load check on a loaded handle while another
\* request, which found the same handle not loaded, is between reading the
\* artifact and reading the feature list
C30_Witness ==
    \E t, u \in Threads :
        /\ t # u
        /\ ld_ref[u] = ld_ref[t]
        /\ ld_pc[t] = "returned"
        /\ handles[ld_ref[t]].loaded
        /\ ld_pc[u] = "lm_list"

---------------------------------------------------------------------------
(* Claims about the content profiles (SpecProf) *)

\* the values of a metric, in 1/TenDen, that the claim says are used:
\* those of the first ten results
UsedCount == IF Len(pf_group) < 10 THEN Len(pf_group) ELSE 10
UsedValues(c) ==
    {IF c.name \in DOMAIN pf_group[i].m THEN TenDen * pf_group[i].m[c.name] ELSE c.default :
        i \in 1..UsedCount}

\* C16: for every non-empty reference group and every content metric the
\* weak (25th percentile), typical (median) and strong (75th percentile)
\* profile values are in this order and lie within the values of the first
\* ten results; when these are all one value, the three profiles are that
\* value
C16_ProfilesOrdered ==
    pf_pc = "profiled" =>
        \A i \in 1..Len(ContentMetrics) :
            LET c == ContentMetrics[i]
                weak == pf_profiles.q25[c.name]
                typical == pf_profiles.median[c.name]
                strong == pf_profiles.q75[c.name]
            IN  /\ weak <= typical /\ typical <= strong
                /\ \A u \in UsedValues(c) : Cardinality(UsedValues(c)) = 1 =>
                      weak = 4 * u /\ typical = 4 * u /\ strong = 4 * u
                /\ \E u \in UsedValues(c) : 4 * u <= weak
                /\ \E u \in UsedValues(c) : strong <= 4 * u

\* C16 witness: three results whose word counts are not in increasing order
\* give three different word-count profiles, 0.5 < 1 < 1.5
C16_Witness ==
    /\ pf_pc = "profiled"
    /\ Len(pf_group) = 3
    /\ pf_group[1].m = ("word_count" :> 2)
    /\ pf_group[2].m = ("word_count" :> 0)
    /\ pf_group[3].m = ("word_count" :> 1)
    /\ pf_profiles.q25["word_count"] * 2 = ProfDen
    /\ pf_profiles.median["word_count"] = ProfDen
    /\ pf_profiles.q75["word_count"] * 2 = 3 * ProfDen

---------------------------------------------------------------------------
(* Claims about the tier explanation (SpecExplain) *)

Kinds(reasons) == [i \in 1..Len(reasons) |-> reasons[i].kind]
HasKind(reasons, kind) == \E i \in 1..Len(reasons) : reasons[i].kind = kind

\* the summary sentence the documentation gives each tier
ClaimSentence(tier) ==
    CASE tier = "T1_GO_NOW" ->
           "High-Probability Wins - Your site can credibly break into Top-10 if you build a strong page"
      [] tier = "T2_STRATEGIC" ->
           "Strategic Targets - Competitive, but achievable with great execution"
      [] tier = "T3_LONG_GAME" ->
           "Long-Game Plays - Very competitive, require long-term authority growth"
      [] tier = "T4_NOT_WORTH_IT" ->
           "Not Worth It - Dominated by giant brands/head terms, unlikely to crack Top-10"

\* C18: the reasons of an explanation come in the order authority gap,
\* brand dominance, head term, at most one of each: an authority reason
\* exactly when the gap is negative, a brand reason exactly when there are
\* two giants or more, a head-term reason exactly when the query has three
\* tokens or fewer; the generic reason appears exactly when none of these
\* applies and is then the only reason; the summary sentence is the fixed
\* sentence of the given tier.
C18_ExplanationReasons ==
    ex_pc = "explained" =>
        LET r == ex_ret.reasons
            auth == ex_args.dt_gap < 0
            brand == ex_args.giant_brand_count >= 2
            head == TokenCount(ex_args.query) <= 3
            claimed == (IF auth THEN <<"authority">> ELSE <<>>)
                       \o (IF brand THEN <<"brand">> ELSE <<>>)
                       \o (IF head THEN <<"head">> ELSE <<>>)
        IN  /\ Kinds(r) = IF claimed = <<>> THEN <<"generic">> ELSE claimed
            /\ HasKind(r, "generic") <=> (~auth /\ ~brand /\ ~head)
            /\ ex_args.tier \in Tiers => ex_ret.base = ClaimSentence(ex_args.tier)

\* C18 witness: a gap of -20.5 points, four giants and a two-token query
\* give three reasons, in this order
C18_Witness ==
    /\ ex_pc = "explained"
    /\ ex_args.tier = "T4_NOT_WORTH_IT"
    /\ ex_args.dt_gap = (0 - 20) * GapDen - 5
    /\ Len(ex_ret.reasons) = 3
    /\ ex_ret.reasons[1] = Reason("authority", "Significant authority gap", 20)
    /\ ex_ret.reasons[2] = Reason("brand", "Highly dominated by giant brands", 4)
    /\ ex_ret.reasons[3].kind = "head"

---------------------------------------------------------------------------
(* Claims about the fit scorers (SpecFit) *)

DomainFitted == fit_pc = "domain_fit"

\* the combined ratio of the claim, 0.55 * own / ref authority + 0.45 *
\* own / ref backlinks, is RatioNum / (100 * RatioDen); it is defined when
\* both references are positive numbers and both own values are numbers
RatioDefined ==
    /\ IsNum(fit_args.client_domain_trust) /\ IsNum(fit_args.client_referring_domains)
    /\ IsNum(fit_args.serp_median_dt) /\ fit_args.serp_median_dt.v > 0
    /\ IsNum(fit_args.serp_median_refdoms) /\ fit_args.serp_median_refdoms.v > 0
RatioNum ==
    55 * fit_args.client_domain_trust.v * fit_args.serp_median_refdoms.v
    + 45 * fit_args.client_referring_domains.v * fit_args.serp_median_dt.v
RatioDen == fit_args.serp_median_dt.v * fit_args.serp_median_refdoms.v

OwnEqualsReference ==
    /\ IsNum(fit_args.client_domain_trust)
    /\ fit_args.client_domain_trust = fit_args.serp_median_dt
    /\ IsNum(fit_args.client_referring_domains)
    /\ fit_args.client_referring_domains = fit_args.serp_median_refdoms

\* C19, as stated: compute_domain_fit returns a score in [0, 100]; in
\* [50, 100] when the combined ratio is >= 1.0 and in [0, 50), strictly
\* below 50, when it is < 1.0; exactly 50.0 when own equals reference on
\* authority and on backlinks.  The score is in tenths.
C19_DomainFitRanges ==
    DomainFitted =>
        /\ 0 <= fit_ret.score /\ fit_ret.score <= 1000
        /\ RatioDefined =>
              IF RatioNum >= 100 * RatioDen
              THEN 500 <= fit_ret.score
              ELSE fit_ret.score < 500
        /\ OwnEqualsReference => fit_ret.score = 500

\* C19, amended: as above, but the score is rounded to one decimal when it
\* is returned, so that for a combined ratio < 1.0 the returned score is in
\* [0, 50], and is below 50.0 whenever the ratio is below 0.999
C19_DomainFitRangesRounded ==
    DomainFitted =>
        /\ 0 <= fit_ret.score /\ fit_ret.score <= 1000
        /\ RatioDefined =>
              IF RatioNum >= 100 * RatioDen
              THEN 500 <= fit_ret.score
              ELSE /\ fit_ret.score <= 500
                   /\ 10 * RatioNum < 999 * RatioDen => fit_ret.score < 500
        /\ OwnEqualsReference => fit_ret.score = 500

\* C19 witness: own authority 30 against 30 and 998 referring domains
\* against 1000 give the ratio 0.9991, the score 49.955 and the returned
\* score 50.0
C19_Witness ==
    /\ DomainFitted
    /\ fit_args.client_domain_trust = Num(30) /\ fit_args.serp_median_dt = Num(30)
    /\ fit_args.client_referring_domains = Num(998)
    /\ fit_args.serp_median_refdoms = Num(1000)
    /\ RatioNum < 100 * RatioDen
    /\ fit_ret.score = 500

\* C20: compute_intent_fit returns a score from 0 to 100 (in tenths: from
\* 0 to 1000), whatever the vertical, the keyword lists, the similarities
\* between -1 and 1, and when the embedding fails
C20_IntentFitRange ==
    fit_pc = "intent_fit" => (0 <= fit_ret.score /\ fit_ret.score <= 1000)

\* a keyword with no pattern match whose best similarity to the client's
\* topics is -0.2 is scored -10.0
C20_NegativeScore ==
    /\ fit_pc = "intent_fit"
    /\ ~fit_args.vertical_known
    /\ fit_args.given /\ ~fit_args.encode_fails
    /\ Len(fit_args.topics) = 2
    /\ fit_args.topics[1].sim = 0 - 1000 /\ fit_args.topics[2].sim = 0 - 200
    /\ fit_ret.score = 0 - 100

---------------------------------------------------------------------------
(* Claims about compute_client_forecast (SpecClient) *)

ClientForecasted == cl_pc = "client_forecast"

\* the blend of the three scores and the difficulty adjustment of a call,
\* in 1/BlendDen
ClaimBlend(a) ==
    80 * a.win_score + 70 * a.domain_fit + 50 * a.intent_fit
      + (IF IsNone(a.keyword_difficulty) THEN 0 ELSE 200 * (50 - a.keyword_difficulty.v))
\* min(5, volume / 2000), in 1/BlendDen
ClaimBonus(volume) == IF volume > 10000 THEN 10000 ELSE volume
\* limited to [0, 100] and rounded to one decimal, in tenths
ClaimReturned(total) ==
    RoundTenths(IF total < 0 THEN 0 ELSE IF total > 200000 THEN 200000 ELSE total, 2000)

\* C21: compute_client_forecast returns the blend win_prob x 100 x 0.40 +
\* domain_fit x 0.35 + intent_fit x 0.25, plus (50 - difficulty) x 0.1 when a
\* difficulty is supplied, plus min(5, volume / 2000) for every supplied
\* volume, limited to [0, 100].
C21_BonusForEveryVolume ==
    ClientForecasted =>
        cl_ret.score =
            ClaimReturned(ClaimBlend(cl_args)
                          + (IF IsNone(cl_args.search_volume) THEN 0
                             ELSE ClaimBonus(cl_args.search_volume.v)))

\* C21 as the code has it: the volume bonus is added only for a supplied
\* volume above 1000, and the limited sum is rounded to one decimal.
C21_BonusAboveThousand ==
    ClientForecasted =>
        cl_ret.score =
            ClaimReturned(ClaimBlend(cl_args)
                          + (IF ~IsNone(cl_args.search_volume) /\ cl_args.search_volume.v > 1000
                             THEN ClaimBonus(cl_args.search_volume.v)
                             ELSE 0))

\* win 0.5, both fits 50.0, no difficulty, volume 1000: 50.0 is returned,
\* not 50.5
C21_Witness ==
    /\ ClientForecasted
    /\ cl_args = [win_score |-> 500, domain_fit |-> 500, intent_fit |-> 500,
                  keyword_difficulty |-> None, search_volume |-> Num(1000)]
    /\ cl_ret.score = 500

\* C22: the tier returned by compute_client_forecast agrees with the
\* percentage returned with it: >= 70 HIGH_PRIORITY, >= 50 GOOD_FIT, >= 35
\* CONSIDER, >= 20 LONG_TERM, below 20 NOT_RECOMMENDED.
C22_TierAgreesWithReturned ==
    ClientForecasted =>
        cl_ret.tier = IF cl_ret.score >= 700 THEN "HIGH_PRIORITY"
                      ELSE IF cl_ret.score >= 500 THEN "GOOD_FIT"
                      ELSE IF cl_ret.score >= 350 THEN "CONSIDER"
                      ELSE IF cl_ret.score >= 200 THEN "LONG_TERM"
                      ELSE "NOT_RECOMMENDED"

\* win 0.999 and both fits 50.0 give 69.96: 70.0 is returned with GOOD_FIT
C22_SeventyIsGoodFit ==
    /\ ClientForecasted
    /\ cl_args = [win_score |-> 999, domain_fit |-> 500, intent_fit |-> 500,
                  keyword_difficulty |-> None, search_volume |-> None]
    /\ cl_ret.score = 700
    /\ cl_ret.tier = "GOOD_FIT"

---------------------------------------------------------------------------
(* Claims about the forecast and the model files (SpecFC) *)

Forecasted == fc_pc = "forecast"
NonEmptyGroup(f) == f.enriched_results # <<>>
\* a step that is a forecast on a non-empty reference group
ForecastStep == NoCall /\ fc_pc' = "forecast" /\ NonEmptyGroup(fc_in')
\* a step that is a predict_rankability call
PredictStep == NoCall /\ fv_pc' = "predicted"
\* the exception of the call just made, and whether it gave no number
CallExc == IF fc_pc = "forecast" THEN fc_out.exc ELSE fv_ret.exc
NoNumber ==
    IF fc_pc = "forecast"
    THEN fc_out.k = "raise" /\ fc_out.pct = Triple(0, 0, 0) /\ fc_out.raw = Triple(0, 0, 0)
    ELSE fv_ret.k = "raise" /\ fv_ret.v = 0 /\ fv_ret.tier = ""

\* C12: a forecast on a non-empty reference group or a predict_rankability
\* call made on a handle that is not loaded fails with FileNotFoundError,
\* gives no number and leaves the handle not loaded when the classifier
\* artifact or the feature-list file is missing; when both files exist it
\* loads the handle and does not fail with that error, and the forecast
\* returns its result.
C12_MissingFileFailsUntilPresent ==
    [][(ForecastStep \/ PredictStep) /\ ~mlmodel.loaded =>
        IF FilesPresent
        THEN /\ mlmodel'.loaded
             /\ CallExc' # "FileNotFoundError"
             /\ fc_pc' = "forecast" => fc_out'.k = "ok"
        ELSE /\ ~mlmodel'.loaded
             /\ CallExc' = "FileNotFoundError"
             /\ NoNumber']_vars

\* a forecast failed for a missing file, the file appeared, and the next
\* forecast loaded the handle and returned
C12_Witness ==
    /\ Forecasted
    /\ fc_prev = "FileNotFoundError"
    /\ NonEmptyGroup(fc_in)
    /\ mlmodel.loaded
    /\ fc_out.k = "ok"

InferenceRaised(f) == \E name \in {"median", "q25", "q75"} : f.proba[name].k = "raise"

\* C13: a forecast whose inference call raised for any of the three
\* profiles fails with an error that reaches its caller; it returns no
\* result computed from a substituted default.
C13_InferenceErrorPropagates ==
    Forecasted /\ NonEmptyGroup(fc_in) /\ mlmodel.loaded /\ InferenceRaised(fc_in)
        => fc_out.k = "raise"

\* the inference call raised for all three profiles and the forecast
\* returned a result computed from the raw probability 0.0: 1.0 percent in
\* the lowest tier
C13_DefaultSubstituted ==
    /\ Forecasted
    /\ \A name \in {"median", "q25", "q75"} : fc_in.proba[name].k = "raise"
    /\ fc_out.k = "ok"
    /\ fc_out.raw = Triple(0, 0, 0)
    /\ fc_out.pct.median = PctDen
    /\ fc_out.tiers.median = "T4_NOT_WORTH_IT"

\* C15: a forecast on an empty reference group returns three percentages
\* of 0.0 and the marker "No SERP results available" without raising,
\* without a lookup of the caller's authority, without a call of the
\* classifier and without a change of the handle, whether or not the files
\* exist.
C15_EmptyGroupGivesZeroForecast ==
    [][NoCall /\ fc_pc' = "forecast" /\ ~NonEmptyGroup(fc_in') =>
        /\ fc_out'.k = "ok"
        /\ fc_out'.pct = Triple(0, 0, 0)
        /\ fc_out'.error = "No SERP results available"
        /\ fc_out'.lookups = 0
        /\ fc_out'.proba_calls = 0
        /\ mlmodel' = mlmodel]_vars

\* an empty group with a target domain given and the classifier artifact
\* missing
C15_Witness ==
    /\ Forecasted
    /\ ~NonEmptyGroup(fc_in)
    /\ fc_in.target_domain_url
    /\ ~disk.model_file
    /\ ~mlmodel.loaded
    /\ fc_out.k = "ok"
    /\ fc_out.error = "No SERP results available"

\* the caller's authority is unknown: no target domain, or the lookup
\* returned None
AuthorityUnknown(f) == ~f.target_domain_url \/ IsNone(f.dt_lookup)
ForecastReturned == Forecasted /\ NonEmptyGroup(fc_in) /\ fc_out.k = "ok"

GiantsIn(results, n) == {i \in 1..Len(results) : i <= n /\ results[i].giant}

\* C25: the giant-brand count reported by a forecast and given to the
\* calibrator is the number of giant-brand pages of the reference group
\* (the first ten results at most): results after the tenth do not change
\* it and it does not exceed the size of the group.
C25_GiantCountOverReferenceGroup ==
    ForecastReturned =>
        /\ fc_out.giant_brand_count
             = Cardinality(GiantsIn(fc_in.enriched_results, Len(Top10(fc_in.enriched_results))))
        /\ fc_out.cal.giant_brand_count = fc_out.giant_brand_count
        /\ fc_out.giant_brand_count <= Len(Top10(fc_in.enriched_results))

\* twelve results whose only giant-brand pages are the eleventh and the
\* twelfth: the forecast reports 2 and the calibrator applies 0.70
C25_CountsAfterTenth ==
    /\ ForecastReturned
    /\ Len(fc_in.enriched_results) = 12
    /\ GiantsIn(fc_in.enriched_results, 10) = {}
    /\ fc_out.giant_brand_count = 2
    /\ fc_out.cal.giant_brand_count = 2
    /\ FactorBrand(fc_out.cal.giant_brand_count) = 70

\* the caller's authority is known and its referring-domain count is not
CountMissing(f) == f.target_domain_url /\ ~IsNone(f.dt_lookup) /\ IsNone(f.ref_lookup)

\* C26: when the caller's authority is known and its referring-domain count
\* could not be obtained, the three profiles carry the reference median as
\* the count and the backlink-ratio factor of the calibration is 1.00.
C26_MissingCountIsNeutral ==
    ForecastReturned /\ CountMissing(fc_in) =>
        /\ \A name \in {"median", "q25", "q75"} :
            fc_out.profiles[name]["referring_domains"]
              = DictGet(fc_in.serp_medians, "referring_domains", Num(0))
        /\ FactorRef(fc_out.cal.median_ref_serp, fc_out.cal.my_ref) = 100

\* authority 20 known, count missing, reference median count 20: the
\* profiles carry 20, the calibrator is given 0 against 20 and applies 0.20
C26_CountOfZeroCalibrated ==
    /\ ForecastReturned
    /\ CountMissing(fc_in)
    /\ fc_out.profiles.median["referring_domains"] = Num(20)
    /\ fc_out.cal.median_ref_serp = Num(20)
    /\ fc_out.cal.my_ref = Num(0)
    /\ FactorRef(fc_out.cal.median_ref_serp, fc_out.cal.my_ref) = 20
    /\ fc_out.my_referring_domains = None

\* the calibrated probability of a profile of the returned forecast, in
\* 1/CalDen: the calibration of that profile's raw probability
CalibratedOf(name) ==
    calibrate_rank_probability([fc_out.cal EXCEPT !.raw_prob = Num(fc_out.raw[name])]).v

\* C27: the tier of each profile of a forecast is the tier of its
\* calibrated probability times 100 under the thresholds 20 / 10 / 4: below
\* 0.20 it is not T1_GO_NOW, below 0.10 it is neither T1_GO_NOW nor
\* T2_STRATEGIC, below 0.04 it is T4_NOT_WORTH_IT.
C27_TierOfCalibrated ==
    ForecastReturned =>
        \A name \in {"median", "q25", "q75"} :
            /\ CalibratedOf(name) < CalOfPercent(20) => fc_out.tiers[name] # "T1_GO_NOW"
            /\ CalibratedOf(name) < CalOfPercent(10)
                 => fc_out.tiers[name] \notin {"T1_GO_NOW", "T2_STRATEGIC"}
            /\ CalibratedOf(name) < CalOfPercent(4) => fc_out.tiers[name] = "T4_NOT_WORTH_IT"

\* raw probability 0.571 with factors 0.70 and 0.50: calibrated 0.19985 is
\* reported as 20.0 percent in the tier T1_GO_NOW
C27_RoundedIntoGoNow ==
    /\ ForecastReturned
    /\ fc_out.raw.median = 571
    /\ CalibratedOf("median") < CalOfPercent(20)
    /\ fc_out.pct.median = 20 * PctDen
    /\ fc_out.tiers.median = "T1_GO_NOW"

\* C27 as the code has it: each profile's percentage is its calibrated
\* probability times 100 rounded to one decimal place, and its tier is the
\* tier of that rounded percentage under the thresholds 20 / 10 / 4; a
\* calibrated probability of 0.1995 or more is T1_GO_NOW, one below 0.1995
\* is not.
C27_TierOfRoundedPercentage ==
    ForecastReturned =>
        \A name \in {"median", "q25", "q75"} :
            LET pct == fc_out.pct[name]
                tier == fc_out.tiers[name]
                cal == CalibratedOf(name)
            IN  /\ pct = RoundPct(cal)
                /\ tier = "T1_GO_NOW" <=> pct >= 20 * PctDen
                /\ tier = "T2_STRATEGIC" <=> pct >= 10 * PctDen /\ pct < 20 * PctDen
                /\ tier = "T3_LONG_GAME" <=> pct >= 4 * PctDen /\ pct < 10 * PctDen
                /\ tier = "T4_NOT_WORTH_IT" <=> pct < 4 * PctDen
                /\ tier = "T1_GO_NOW" <=> cal >= 399 * (CalDen \div 2000)

\* the words of the authority reason of an explanation, "" when it has none
AuthorityWords(reasons) ==
    IF HasKind(reasons, "authority")
    THEN reasons[CHOOSE i \in 1..Len(reasons) : reasons[i].kind = "authority"].words
    ELSE ""

\* the authority reason that goes with an authority-gap factor (in percent)
WordsOfFactor(factor) ==
    CASE factor = 100 -> ""
      [] factor = 85 -> "Slight authority gap"
      [] factor = 70 -> "Moderate authority gap"
      [] factor = 50 -> "Significant authority gap"

\* C28: in a forecast the authority reason of the explanation is the one
\* that goes with the authority-gap factor of the calibration (none for
\* 1.00, Slight for 0.85, Moderate for 0.70, Significant for 0.50), also at
\* gaps of exactly -10 and -20, and the gap reported and explained is the
\* gap the calibrator used.
C28_ReasonMatchesFactor ==
    ForecastReturned =>
        /\ AuthorityWords(fc_out.tier_explanation.reasons)
             = WordsOfFactor(FactorDt(fc_out.cal.median_dt_serp, fc_out.cal.my_dt))
        /\ fc_out.dt_gap = fc_out.cal.my_dt.v - fc_out.cal.median_dt_serp.v

\* own authority 20 against a reference median of 30: the gap is exactly
\* -10 for the calibrator and for the explanation, the factor is 0.70 and
\* the reason says Slight
C28_ModerateFactorSlightReason ==
    /\ ForecastReturned
    /\ fc_out.dt_gap = 0 - 10
    /\ fc_out.cal.my_dt = Num(20) /\ fc_out.cal.median_dt_serp = Num(30)
    /\ FactorDt(fc_out.cal.median_dt_serp, fc_out.cal.my_dt) = 70
    /\ AuthorityWords(fc_out.tier_explanation.reasons) = "Slight authority gap"

\* a step that is a forecast, and one that is an analysis of its result
AnyForecastStep == NoCall /\ fc_pc' = "forecast"
AnalyzeStep == an_pc = "idle" /\ an_pc' = "analyzed"

\* C24: forecast invocations are independent and idempotent.  No step
\* changes a loaded handle; a forecast returns what a process with a new
\* handle returns for the same inputs, collaborator answers and files,
\* whatever ran before on this handle; an analysis leaves the forecast
\* result it was given, the inputs of the forecast and the handle as they
\* were, and carries that forecast result in what it returns.
C24_IndependentAndIdempotent ==
    [][/\ mlmodel.loaded => mlmodel' = mlmodel
       /\ AnyForecastStep =>
            fc_out' = forecast_keyword_rank_likelihood(fc_in', NewHandle, disk).out
       /\ AnalyzeStep =>
            /\ fc_out' = fc_out
            /\ fc_in' = fc_in
            /\ mlmodel' = mlmodel
            /\ an_ret'.forecast_result = fc_out
            /\ an_ret'.enhanced.forecast = fc_out]_vars

\* a forecast that returned on a handle loaded by an earlier invocation,
\* after an invocation that failed, has been analysed
C24_Witness ==
    /\ an_pc = "analyzed"
    /\ fc_prev = "FileNotFoundError"
    /\ mlmodel.loaded
    /\ NonEmptyGroup(fc_in)
    /\ an_ret.enhanced.client_forecast.tier # ""

---------------------------------------------------------------------------
(* Claims about the batch endpoints (SpecBatch) *)

BatchIds == 1..Len(bt_kws)
Skipped(i) == Skips(bt_in, bt_kws[i].row)
InResponse(i) == \E j \in 1..Len(bt_resp) : bt_resp[j].id = i
\* this call scored keyword i: its row carries this call's time
FreshlyScored(i) == bt_db[i].scored_at = 2

\* keyword i meets a failure of its own: its reference group cannot be
\* fetched or is empty, the classifier's file is missing, or the client's
\* topics make the analysis raise
FailsAlone(i) ==
    \/ bt_kws[i].gather = "raise"
    \/ bt_kws[i].f.enriched_results = <<>>
    \/ ~disk.model_file
    \/ bt_in.client_vertical /\ ~bt_in.strings

\* C23: a failure while scoring one keyword of a batch is confined to that
\* keyword: the batch never aborts, the call returns after the loop has
\* been through every keyword, the keywords that failed are the ones that
\* meet a failure of their own, and every other keyword that is not skipped
\* is scored by this call and is in the response.
C23_FailureConfinedToKeyword ==
    /\ bt_pc # "aborted"
    /\ bt_pc = "returned" =>
        /\ bt_i = Len(bt_kws)
        /\ \A i \in BatchIds :
            IF Skipped(i)
            THEN bt_log[i] = "" /\ InResponse(i)
            ELSE /\ bt_log[i] # "" <=> FailsAlone(i)
                 /\ ~FailsAlone(i) => FreshlyScored(i) /\ InResponse(i)

\* the first keyword's cached analysis has no results, the second one is
\* scored and is alone in the response
C23_Witness ==
    /\ bt_pc = "returned"
    /\ Len(bt_kws) = 2
    /\ bt_log = <<"KeyError", "">>
    /\ FreshlyScored(2)
    /\ Len(bt_resp) = 1 /\ bt_resp[1].id = 2
    /\ bt_scored = 1

\* the stored scores of a row
Scores(row) ==
    <<row.rankability_score, row.opportunity_tier, row.domain_fit, row.intent_fit,
      row.client_forecast, row.forecast_tier, row.scored_at>>

\* C29: a keyword whose scoring fails at any step is committed with its
\* rankability score, tier, fit scores and scored_at unchanged and is not
\* counted; keywords_scored is the number of keywords freshly scored,
\* stamped and included in the response by this call.
C29_FailedKeywordUntouched ==
    bt_pc = "returned" =>
        /\ \A i \in BatchIds : bt_log[i] # "" => Scores(bt_db[i]) = Scores(bt_kws[i].row)
        /\ bt_scored = Cardinality({i \in BatchIds : bt_log[i] = "" /\ FreshlyScored(i) /\ InResponse(i)})

\* the analysis of the only keyword raised: the keyword is counted and its
\* score and tier are those of the new forecast, but it has no scored_at
\* and is not in the response
C29_CountedButNotReturned ==
    /\ bt_pc = "returned"
    /\ Len(bt_kws) = 1
    /\ bt_log[1] = "AttributeError"
    /\ bt_scored = 1
    /\ bt_resp = <<>>
    /\ bt_kws[1].row = NewRow
    /\ bt_db[1].rankability_score # 0
    /\ bt_db[1].opportunity_tier # "LOW"
    /\ bt_db[1].scored_at = 0

=============================================================================
